---- MODULE Spec2Model ----
(***************************************************************************)
(* Model of the ophta-flow backend: the IOLMaster 700 report parser        *)
(* (backend/app/parsers/iol700.py) and the spreadsheet merge               *)
(* (backend/app/excel_handler.py).                                         *)
(*                                                                         *)
(* Text is modelled character by character: a Python str is a sequence of  *)
(* characters, each character a TLA+ string.  Characters outside ASCII are *)
(* written by name: "e_acute" is U+00E9, "E_acute" is U+00C9, "deg" is the *)
(* degree sign U+00B0.  The field names "Age" and "Oeil" stand for the     *)
(* source's accented keys.  None and "" are both the empty sequence: the   *)
(* code tests cells and values by truthiness only.                         *)
(***************************************************************************)
EXTENDS Integers, Sequences, FiniteSets, TLC

VARIABLES
    pc,             \* position of the running call
    today,          \* datetime.now() as [y, m, d]: an input of the environment
    full_text,      \* parse: concatenated page text of the report
    tables,         \* parse: the tables of the report, in page order
    patient_id,     \* parse: local patient_id
    age,            \* parse: local age
    tix,            \* _extract_from_tables: index of the table being processed
    header_row_idx, \* _extract_from_tables: header row of the current table (0 = None)
    od_col_idx,     \* _extract_from_tables: OD column (0-based, -1 = None)
    os_col_idx,     \* _extract_from_tables: OS column (0-based, -1 = None)
    rix,            \* _extract_from_tables: next row to read (1-based)
    od_data,        \* _extract_from_tables: OD accumulator (dict)
    os_data,        \* _extract_from_tables: OS accumulator (dict)
    table_result,   \* what _extract_from_tables returned: <<>> (None, None) or <<od, os>>
    result,         \* what parse returned
    birth_date_str, \* _calculate_age: its argument
    ws,             \* merge_excel_data: the sheet, rows of cell values
    new_rows,       \* merge_excel_data: the incoming records of the running call
    prev_rows,      \* the records of the previous merge call
    ws_before,      \* the sheet as it was when the running merge call started
    added,          \* number of rows the last merge call wrote
    pdf,            \* parse: the document handle: "none", "open" or "closed"
    styles,         \* merge_excel_data: the cell formats of the sheet, as ws
    wb,             \* merge_excel_data: the workbook handle: "none", "open" or "closed"
    raised,         \* the exception the running call raised, "" for none
    pdf_files,      \* extract_data: the uploaded reports, in order
    file_idx,       \* extract_data: the index of the report being processed
    all_rows,       \* extract_data: the records collected so far
    response,       \* extract_data: the response, <<>> while the request runs
    temp_file,      \* extract_data: the file the upload is saved to: "none", "open" or "closed"
    arg_text,       \* _extract_value_from_text: its argument text
    arg_label,      \* _extract_value_from_text: its argument label
    ret_val         \* _extract_value_from_text: the string it returned

vars == <<pc, today, full_text, tables, patient_id, age, tix, header_row_idx,
          od_col_idx, os_col_idx, rix, od_data, os_data, table_result, result,
          birth_date_str, ws, new_rows, prev_rows, ws_before, added,
          pdf, styles, wb, raised, pdf_files, file_idx, all_rows, response,
          temp_file, arg_text, arg_label, ret_val>>

parseVars == <<full_text, tables, patient_id, age, tix, header_row_idx,
               od_col_idx, os_col_idx, rix, od_data, os_data, table_result, result, pdf>>

mergeVars == <<ws, new_rows, prev_rows, ws_before, added, styles, wb>>

batchVars == <<pdf_files, file_idx, all_rows, response, temp_file>>

valueVars == <<arg_text, arg_label, ret_val>>

-----------------------------------------------------------------------------
(* Characters and strings *)

LowerLetters == <<"a","b","c","d","e","f","g","h","i","j","k","l","m",
                  "n","o","p","q","r","s","t","u","v","w","x","y","z">>

UpperLetters == <<"A","B","C","D","E","F","G","H","I","J","K","L","M",
                  "N","O","P","Q","R","S","T","U","V","W","X","Y","Z">>

DigitChars == <<"0","1","2","3","4","5","6","7","8","9">>

Range(f) == {f[i] : i \in DOMAIN f}

Max(S) == CHOOSE x \in S : \A y \in S : y <= x

Min(S) == CHOOSE x \in S : \A y \in S : x <= y

\* the first element of seq that is not empty, or <<>>: the outcome of a chain
\* of attempts of which the first success is kept
FirstNonEmpty(seq) ==
    LET hits == {i \in DOMAIN seq : seq[i] /= <<>>}
    IN  IF hits = {} THEN <<>> ELSE seq[Min(hits)]

Digits == Range(DigitChars)

\* the characters that are not ASCII are written by name: "vt" is U+000B,
\* "fs" "gs" "rs" "us" are U+001C..U+001F, "nel" is U+0085, "nbsp" is U+00A0,
\* "uXXXX" is the character U+XXXX; "I_dot" is U+0130, "i_dotless" U+0131,
\* "long_s" U+017F, "kelvin" U+212A, "mu" U+00B5, "MU_cap" U+039C, "deg" U+00B0

\* the separators U+001C..U+001F: whitespace for \s and str.strip(), not
\* for float() and int()
Separators == {"fs", "gs", "rs", "us"}

\* the whitespace float() and int() remove around a number
NumberSpace ==
    {" ", "\n", "\t", "\r", "\f", "vt", "nel", "nbsp", "u1680", "u2000", "u2001", "u2002",
     "u2003", "u2004", "u2005", "u2006", "u2007", "u2008", "u2009", "u200a", "u2028",
     "u2029", "u202f", "u205f", "u3000"}

\* \s of the regular expressions and the characters str.strip() removes
Space == NumberSpace \cup Separators

\* the class [\d,\.] (also written [\d.,])
NumChars == Digits \cup {",", "."}

\* the class [:\s]
ColonSpace == Space \cup {":"}

\* the letters outside ASCII that re.IGNORECASE matches with an ASCII letter:
\* U+0130 and U+0131 with I, U+017F with S, U+212A with K
FoldedLetters == {"I_dot", "i_dotless", "long_s", "kelvin"}

\* the class [A-Z0-9_\-\s] under re.IGNORECASE
IdChars ==
    Range(UpperLetters) \cup Range(LowerLetters) \cup FoldedLetters \cup Digits
    \cup {"_", "-"} \cup Space

\* str.upper() of the letters outside a..z that it changes
UpperOfOthers ==
    "e_acute" :> "E_acute" @@ "e_grave" :> "E_grave" @@ "mu" :> "MU_cap"
    @@ "i_dotless" :> "I" @@ "long_s" :> "S"

\* lower-case letter to upper-case letter
UpperOf ==
    [c \in Range(LowerLetters) |-> UpperLetters[CHOOSE i \in 1..26 : LowerLetters[i] = c]]
    @@ UpperOfOthers

\* str.upper(), one character
UpperChar(c) == IF c \in DOMAIN UpperOf THEN UpperOf[c] ELSE c

\* str.upper()
Upper(s) == <<>> \o [i \in 1..Len(s) |-> UpperChar(s[i])]

\* the letter a character stands for under re.IGNORECASE: as str.upper(),
\* and U+0130 is an I, U+212A a K
FoldChar(c) == IF c = "I_dot" THEN "I" ELSE IF c = "kelvin" THEN "K" ELSE UpperChar(c)

\* a text as the patterns compiled with re.IGNORECASE read it
Fold(s) == <<>> \o [i \in 1..Len(s) |-> FoldChar(s[i])]

\* the literal lit stands in s at position i (1-based)
StartsAt(s, i, lit) ==
    /\ i >= 1
    /\ i + Len(lit) - 1 <= Len(s)
    /\ \A k \in 1..Len(lit) : s[i + k - 1] = lit[k]

\* Python's `lit in s`
Contains(s, lit) == \E i \in 1..(Len(s) + 1) : StartsAt(s, i, lit)

\* index just after the longest run of characters of class S that starts at i
RunEnd(s, i, S) == Min({j \in i..Len(s) : s[j] \notin S} \cup {Len(s) + 1})

\* s without the characters of S at its two ends
StripOf(s, S) ==
    IF \A k \in 1..Len(s) : s[k] \in S THEN <<>>
    ELSE LET a == Min({k \in 1..Len(s) : s[k] \notin S})
             b == Max({k \in 1..Len(s) : s[k] \notin S})
         IN  SubSeq(s, a, b)

\* str.strip()
Strip(s) == StripOf(s, Space)

RECURSIVE Replace(_, _, _)
\* str.replace(old, new): non-overlapping occurrences, left to right (old is not empty)
Replace(s, old, new) ==
    IF Len(s) = 0 THEN <<>>
    ELSE IF StartsAt(s, 1, old)
         THEN new \o Replace(SubSeq(s, Len(old) + 1, Len(s)), old, new)
         ELSE <<s[1]>> \o Replace(SubSeq(s, 2, Len(s)), old, new)

\* re.sub(r'\D', '', s)
DigitsOnly(s) == SelectSeq(s, LAMBDA c : c \in Digits)

\* value of a digit character
DigitVal(c) == (CHOOSE i \in 1..10 : DigitChars[i] = c) - 1

RECURSIVE NatOf(_)
\* int() of a non-empty string of digits
NatOf(s) ==
    IF Len(s) = 0 THEN 0
    ELSE 10 * NatOf(SubSeq(s, 1, Len(s) - 1)) + DigitVal(s[Len(s)])

RECURSIVE NatStr(_)
\* str() of a natural number
NatStr(n) ==
    IF n < 10 THEN <<DigitChars[n + 1]>>
    ELSE NatStr(n \div 10) \o <<DigitChars[(n % 10) + 1]>>

\* str() of an int
IntStr(n) == IF n < 0 THEN <<"-">> \o NatStr(-n) ELSE NatStr(n)

-----------------------------------------------------------------------------
(* Numbers written as text *)

\* the whitespace float() and int() skip at the two ends
NumberStrip(s) == StripOf(s, NumberSpace)

\* t without its sign, when it has one
Unsigned(t) == IF Len(t) > 0 /\ t[1] \in {"+", "-"} THEN SubSeq(t, 2, Len(t)) ELSE t

\* digitpart of float() and int(): digits, single underscores between them
DigitPart(u) ==
    /\ Len(u) > 0
    /\ \A k \in 1..Len(u) : u[k] \in Digits \cup {"_"}
    /\ u[1] \in Digits /\ u[Len(u)] \in Digits
    /\ \A k \in 1..(Len(u) - 1) : ~(u[k] = "_" /\ u[k + 1] = "_")

\* the positions of the characters of S in u
PositionsOf(u, S) == {k \in 1..Len(u) : u[k] \in S}

\* u before and after its position k
Before(u, k) == SubSeq(u, 1, k - 1)

After(u, k) == SubSeq(u, k + 1, Len(u))

\* number of float(): [digitpart] "." digitpart | digitpart ["."]
PointNumberOk(u, points) ==
    IF points = {} THEN DigitPart(u)
    ELSE /\ Cardinality(points) = 1
         /\ LET k == Min(points)
            IN  \/ k = 1 /\ DigitPart(After(u, k))
                \/ DigitPart(Before(u, k)) /\ (k = Len(u) \/ DigitPart(After(u, k)))

NumberOk(u) == PointNumberOk(u, PositionsOf(u, {"."}))

\* floatnumber of float(): number [("e" | "E") [sign] digitpart]
ExponentNumberOk(u, marks) ==
    IF marks = {} THEN NumberOk(u)
    ELSE /\ Cardinality(marks) = 1
         /\ NumberOk(Before(u, Min(marks)))
         /\ DigitPart(Unsigned(After(u, Min(marks))))

FloatNumberOk(u) == ExponentNumberOk(u, PositionsOf(u, {"e", "E"}))

\* a letter of a..z in upper case, every other character as it is
AsciiUpper(u) ==
    <<>> \o [k \in 1..Len(u) |-> IF u[k] \in Range(LowerLetters) THEN UpperOf[u[k]] ELSE u[k]]

\* "inf" and "infinity" of float(), in any case of the ASCII letters
InfinityOk(u) == AsciiUpper(u) \in {<<"I","N","F">>, <<"I","N","F","I","N","I","T","Y">>}

\* "nan" of float()
NanOk(u) == AsciiUpper(u) = <<"N","A","N">>

\* absfloatvalue of float(): floatnumber | infinity | nan
UnsignedOk(u) == FloatNumberOk(u) \/ InfinityOk(u) \/ NanOk(u)

\* the strings float() accepts: whitespace at the two ends, an optional
\* sign, then a number with digits, underscores between digits, at most one
\* point and an optional exponent, or inf, infinity or nan
FloatOk(s) == UnsignedOk(Unsigned(NumberStrip(s)))

\* _is_numeric
_is_numeric(value) == FloatOk(Replace(value, <<",">>, <<".">>))

\* the digits before the point of an unsigned decimal string
IntPart(s) ==
    IF \E k \in 1..Len(s) : s[k] = "."
    THEN SubSeq(s, 1, (CHOOSE k \in 1..Len(s) : s[k] = ".") - 1)
    ELSE s

\* the digits after the point of an unsigned decimal string
FracPart(s) ==
    IF \E k \in 1..Len(s) : s[k] = "."
    THEN SubSeq(s, (CHOOSE k \in 1..Len(s) : s[k] = ".") + 1, Len(s))
    ELSE <<>>

-----------------------------------------------------------------------------
(* Floating point: float() and repr() *)

(***************************************************************************)
(* A float of Python is an IEEE 754 double: a zero, inf, nan, or a         *)
(* significand n below 2^53 times 2^k, k from -1074 to 971.  float() gives *)
(* the double nearest to the number written, the one with the even         *)
(* significand when two are equally near, and repr() writes the fewest     *)
(* digits that read as the double, the nearest to it when several do.      *)
(* The model holds a float as repr() writes it: the sign, the digits and   *)
(* the power of ten of the first digit.  The numbers of the arithmetic are *)
(* sequences of digit values, the most significant first, without zeros in *)
(* front; <<>> is zero.  N with f decimals stands for N / 10^f.            *)
(***************************************************************************)

\* the float of sign n (1 or -1) that repr() writes with the digits ds, the
\* first of them standing for 10^x
Float(sign, ds, x) == [kind |-> "float", n |-> sign, e |-> x, s |-> ds]

\* 0.0 and -0.0
ZeroFloat(sign) == Float(sign, <<"0">>, 0)

\* the float inf (sign 1) or -inf (sign -1), and the float nan
InfCell(sign) == Float(sign, <<"i","n","f">>, 0)

NanCell == Float(1, <<"n","a","n">>, 0)

\* the float is a number, zero included
Finite(v) == v.s[1] \in Digits

Abs(m) == IF m < 0 THEN -m ELSE m

\* the values of digit characters, and the characters of digit values
DigitValues(s) == <<>> \o [i \in 1..Len(s) |-> DigitVal(s[i])]

DigitText(N) == <<>> \o [i \in 1..Len(N) |-> DigitChars[N[i] + 1]]

\* k zeros
ZeroDigits(k) == <<>> \o [i \in 1..k |-> 0]

\* the digits of N from position a to b are zeros
AllZero(N, a, b) == \A i \in a..b : N[i] = 0

\* the last position of N whose digit is not d, 0 when there is none, and
\* the first, Len(N) + 1 when there is none
LastNot(N, d) ==
    CHOOSE i \in 0..Len(N) : (i = 0 \/ N[i] /= d) /\ \A y \in (i + 1)..Len(N) : N[y] = d

FirstNot(N, d) ==
    CHOOSE i \in 1..(Len(N) + 1) : (i > Len(N) \/ N[i] /= d) /\ \A y \in 1..(i - 1) : N[y] = d

NoLeadingZeros(N) == SubSeq(N, FirstNot(N, 0), Len(N))

NoTrailingZeros(N) == SubSeq(N, 1, LastNot(N, 0))

\* N without the one zero a product may have in front
DropZero(N) == IF N /= <<>> /\ N[1] = 0 THEN Tail(N) ELSE N

\* N with zeros in front, m digits in all
Pad(N, m) == ZeroDigits(m - Len(N)) \o N

\* 2 * N: a digit takes a carry exactly when the digit to its right is 5 or more
Twice(N) ==
    DropZero(<<>> \o [i \in 1..(Len(N) + 1) |->
        ((2 * (IF i = 1 THEN 0 ELSE N[i - 1])) % 10)
        + (IF i <= Len(N) /\ N[i] >= 5 THEN 1 ELSE 0)])

\* 5 * N, which is N / 2 with one decimal more: a digit takes ten from the
\* digit to its left when that one is odd
FiveTimes(N) ==
    DropZero(<<>> \o [i \in 1..(Len(N) + 1) |->
        ((IF i <= Len(N) THEN N[i] ELSE 0)
         + 10 * (IF i = 1 THEN 0 ELSE N[i - 1] % 2)) \div 2])

Twice8(N) == Twice(Twice(Twice(Twice(Twice(Twice(Twice(Twice(N))))))))

FiveTimes8(N) ==
    FiveTimes(FiveTimes(FiveTimes(FiveTimes(FiveTimes(FiveTimes(FiveTimes(FiveTimes(N))))))))

RECURSIVE TimesTwoTo(_, _)
\* N * 2^j
TimesTwoTo(N, j) ==
    IF N = <<>> \/ j = 0 THEN N
    ELSE IF j >= 16 THEN TimesTwoTo(TimesTwoTo(N, j \div 2), j - (j \div 2))
    ELSE IF j >= 8 THEN TimesTwoTo(Twice8(N), j - 8)
    ELSE TimesTwoTo(Twice(N), j - 1)

RECURSIVE TimesFiveTo(_, _)
\* N * 5^j
TimesFiveTo(N, j) ==
    IF N = <<>> \/ j = 0 THEN N
    ELSE IF j >= 16 THEN TimesFiveTo(TimesFiveTo(N, j \div 2), j - (j \div 2))
    ELSE IF j >= 8 THEN TimesFiveTo(FiveTimes8(N), j - 8)
    ELSE TimesFiveTo(FiveTimes(N), j - 1)

\* the digits of N * 2^j, with -j decimals when j is negative
Scaled(N, j) == IF j >= 0 THEN TimesTwoTo(N, j) ELSE TimesFiveTo(N, -j)

\* N + 1
Succ(N) ==
    LET p == LastNot(N, 9)
    IN  IF p = 0 THEN <<1>> \o ZeroDigits(Len(N))
        ELSE SubSeq(N, 1, p - 1) \o <<N[p] + 1>> \o ZeroDigits(Len(N) - p)

\* N - 1, for N > 0
Pred(N) ==
    LET p == LastNot(N, 0)
    IN  DropZero(SubSeq(N, 1, p - 1) \o <<N[p] - 1>> \o [i \in 1..(Len(N) - p) |-> 9])

Odd(N) == N /= <<>> /\ N[Len(N)] % 2 = 1

RECURSIVE FirstDifference(_, _, _)
\* the first position from i on where A and B, of one length, differ
FirstDifference(A, B, i) ==
    IF i > Len(A) \/ A[i] /= B[i] THEN i ELSE FirstDifference(A, B, i + 1)

\* A < B for digit sequences of one length
LexLess(A, B) ==
    LET i == FirstDifference(A, B, 1) IN i <= Len(A) /\ A[i] < B[i]

\* A < B for numbers without zeros in front
Less(A, B) == Len(A) < Len(B) \/ (Len(A) = Len(B) /\ LexLess(A, B))

\* 2^52 and 2^53
TwoTo52 == <<4,5,0,3,5,9,9,6,2,7,3,7,0,4,9,6>>

TwoTo53 == <<9,0,0,7,1,9,9,2,5,4,7,4,0,9,9,2>>

\* the digits of N before its f decimals, and the f decimals
IntDigits(N, f) == IF Len(N) > f THEN SubSeq(N, 1, Len(N) - f) ELSE <<>>

FracDigits(N, f) ==
    IF Len(N) >= f THEN SubSeq(N, Len(N) - f + 1, Len(N)) ELSE ZeroDigits(f - Len(N)) \o N

RECURSIVE Scaling(_, _, _)
\* N / 10^f = W * 2^k with W from 2^52 to below 2^53, or below 2^52 with
\* k = -1074, the least exponent of a double; W is returned as N with f decimals
Scaling(N, f, k) ==
    LET ip == IntDigits(N, f)
    IN  IF Len(ip) >= 20 THEN Scaling(FiveTimes8(N), f + 8, k + 8)
        ELSE IF ~Less(ip, TwoTo53) THEN Scaling(FiveTimes(N), f + 1, k + 1)
        ELSE IF Len(ip) <= 12 /\ k >= 8 - 1074 THEN Scaling(Twice8(N), f, k - 8)
        ELSE IF Less(ip, TwoTo52) /\ k > -1074 THEN Scaling(Twice(N), f, k - 1)
        ELSE [N |-> N, f |-> f, k |-> k]

\* a power of two that brings N / 10^f near 2^52 from the side it is on: a
\* doubling adds less than 0.3011 digits, a halving takes off as little
Doublings(N, f) ==
    IF Len(N) - f < 12 THEN Min({1074, ((12 - (Len(N) - f)) * 33) \div 10})
    ELSE IF Len(N) - f > 19 THEN -(((Len(N) - f - 19) * 33) \div 10)
    ELSE 0

\* the scaling of N / 10^f, most of it in one step
Significand(N, f, k) ==
    LET j == Doublings(N, f)
    IN  IF j >= 0 THEN Scaling(TimesTwoTo(N, j), f, k - j)
        ELSE Scaling(TimesFiveTo(N, -j), f - j, k - j)

\* the decimals fr are more than a half, or a half next to an odd ip
RoundsUp(ip, fr) ==
    /\ fr /= <<>>
    /\ \/ fr[1] > 5
       \/ fr[1] = 5 /\ (~AllZero(fr, 2, Len(fr)) \/ Odd(ip))

\* the integer nearest to N / 10^f, the even one of two
Rounded(ip, fr) == IF RoundsUp(ip, fr) THEN Succ(ip) ELSE ip

\* the significand n and the exponent k of a rounded W * 2^k
Normal(n, k) == IF n = TwoTo53 THEN [n |-> TwoTo52, k |-> k + 1] ELSE [n |-> n, k |-> k]

\* the double nearest to N / 10^f, N > 0: n * 2^k, zero when n is <<>>, beyond
\* the largest double when k is more than 971
BinaryOf(sg) == Normal(Rounded(IntDigits(sg.N, sg.f), FracDigits(sg.N, sg.f)), sg.k)

Binary(N, f) == BinaryOf(Significand(N, f, 0))

\* the multiple of 10^t just below V is not below L, where L, V and H have
\* one length and inclusive tells that L and H themselves read as the double
DownIn(L, V, t, inclusive) ==
    LET m == Len(V)
    IN  \/ LexLess(SubSeq(L, 1, m - t), SubSeq(V, 1, m - t))
        \/ /\ inclusive
           /\ SubSeq(L, 1, m - t) = SubSeq(V, 1, m - t)
           /\ AllZero(L, m - t + 1, m)

\* the multiple of 10^t just above V is not above H
UpIn(V, H, t, inclusive) ==
    LET m == Len(V)
    IN  /\ LexLess(SubSeq(V, 1, m - t), SubSeq(H, 1, m - t))
        /\ \/ inclusive
           \/ ~AllZero(H, m - t + 1, m)
           \/ Succ(SubSeq(V, 1, m - t)) /= SubSeq(H, 1, m - t)

\* a multiple of 10^t reads as the double
CutHolds(L, V, H, t, inclusive) == DownIn(L, V, t, inclusive) \/ UpIn(V, H, t, inclusive)

RECURSIVE LongerCut(_, _, _, _, _)
LongerCut(L, V, H, t, inclusive) ==
    IF t < Len(V) /\ CutHolds(L, V, H, t + 1, inclusive)
    THEN LongerCut(L, V, H, t + 1, inclusive) ELSE t

RECURSIVE ShorterCut(_, _, _, _, _)
ShorterCut(L, V, H, t, inclusive) ==
    IF CutHolds(L, V, H, t, inclusive) THEN t ELSE ShorterCut(L, V, H, t - 1, inclusive)

\* the largest t for which a multiple of 10^t reads as the double, sought
\* from the first digit in which L and H differ
CutFrom(L, V, H, t, inclusive) ==
    IF CutHolds(L, V, H, t, inclusive) THEN LongerCut(L, V, H, t, inclusive)
    ELSE ShorterCut(L, V, H, t - 1, inclusive)

Cut(L, V, H, inclusive) == CutFrom(L, V, H, Len(V) - FirstDifference(L, H, 1), inclusive)

\* the multiple of 10^t above V is nearer to V than the one below, or as
\* near and the even one
NearerUp(V, t) ==
    LET m == Len(V)
    IN  /\ t > 0
        /\ \/ V[m - t + 1] > 5
           \/ /\ V[m - t + 1] = 5
              /\ (~AllZero(V, m - t + 2, m) \/ (m > t /\ V[m - t] % 2 = 1))

\* the digits of the multiple of 10^t that repr() writes
Chosen(L, V, H, t, inclusive) ==
    IF UpIn(V, H, t, inclusive) /\ (~DownIn(L, V, t, inclusive) \/ NearerUp(V, t))
    THEN Succ(SubSeq(V, 1, Len(V) - t)) ELSE SubSeq(V, 1, Len(V) - t)

\* the digits c cut at 10^t, of a number with f decimals, as digits and
\* the power of ten of the first
DigitsAt(c, t, f) == [ds |-> NoTrailingZeros(c), x |-> Len(c) - 1 + t - f]

ShortestAt(L, V, H, t, f, inclusive) ==
    DigitsAt(NoLeadingZeros(Chosen(L, V, H, t, inclusive)), t, f)

\* the fewest digits between L and H, nearest to V
ShortestIn(L, V, H, f, inclusive) == ShortestAt(L, V, H, Cut(L, V, H, inclusive), f, inclusive)

\* the numbers L < V < H, written to one length
ShortestOf(lo, v, hi, f, inclusive) ==
    ShortestIn(Pad(lo, Len(hi)), Pad(v, Len(hi)), hi, f, inclusive)

\* the texts between c - 1 and c + above, all times 2^j, read as the double
\* c * 2^j
ShortestAround(c, above, j, inclusive) ==
    ShortestOf(Scaled(Pred(c), j), Scaled(c, j), Scaled(above, j),
               IF j < 0 THEN -j ELSE 0, inclusive)

\* repr() of the double n * 2^k: the texts that read as it reach half way
\* to the doubles next to it, which is a quarter of the step below 2^52 * 2^k
Shortest(n, k) ==
    IF n = TwoTo52 /\ k > -1074
    THEN ShortestAround(Twice(Twice(n)), Succ(Succ(Twice(Twice(n)))), k - 2, TRUE)
    ELSE ShortestAround(Twice(n), Succ(Twice(n)), k - 1, ~Odd(n))

\* the float of the double b under the sign
FloatOfBinary(sign, b) ==
    IF b.n = <<>> THEN ZeroFloat(sign)
    ELSE IF b.k > 971 THEN InfCell(sign)
    ELSE LET r == Shortest(b.n, b.k) IN Float(sign, DigitText(r.ds), r.x)

\* the float nearest to N * 10^q, N without zeros at its ends.  A number of
\* at most 15 digits that is no smaller than 1e-300 in size and smaller than
\* 1e301 is the shortest text of the double nearest to it
NearestFloat(sign, N, q) ==
    LET x == Len(N) - 1 + q
    IN  IF N = <<>> THEN ZeroFloat(sign)
        ELSE IF Len(N) <= 15 /\ x >= -300 /\ x <= 300 THEN Float(sign, DigitText(N), x)
        ELSE IF x > 309 THEN InfCell(sign)
        ELSE IF x < -325 THEN ZeroFloat(sign)
        ELSE IF q >= 0 THEN FloatOfBinary(sign, Binary(N \o ZeroDigits(q), 0))
        ELSE FloatOfBinary(sign, Binary(N, -q))

\* the digits A without the zeros at their end, times 10^p
Trimmed(sign, A, N, p) == NearestFloat(sign, N, p + Len(A) - Len(N))

\* float() of the digit characters d times 10^p under the sign
FloatOfDigits(sign, d, p) ==
    LET A == NoLeadingZeros(DigitValues(d))
    IN  Trimmed(sign, A, NoTrailingZeros(A), p)

\* the number of an unsigned string of digits under the sign of s
Signed(s, n) == IF Len(s) > 0 /\ s[1] = "-" THEN -n ELSE n

\* the digits of a digitpart
WithoutUnderscores(u) == SelectSeq(u, LAMBDA c : c /= "_")

\* the number before the exponent of an unsigned float text, and the text
\* of the exponent
MantissaOf(u, marks) == IF marks = {} THEN u ELSE Before(u, Min(marks))

ExponentOf(u, marks) == IF marks = {} THEN <<>> ELSE After(u, Min(marks))

\* the value of the exponent digits d: from ten digits on every float is
\* inf or zero, as it is for 999999999
ExponentSize(d) ==
    IF Len(d) - (RunEnd(d, 1, {"0"}) - 1) > 9 THEN 999999999 ELSE NatOf(d)

\* the exponent written in x, 0 when there is none
ExponentValue(x) ==
    IF x = <<>> THEN 0 ELSE Signed(x, ExponentSize(WithoutUnderscores(Unsigned(x))))

\* the float of the digits ip before and fp after the point, times 10^x
FloatFrom(num_str, ip, fp, x) == FloatOfDigits(Signed(num_str, 1), ip \o fp, x - Len(fp))

\* the float of the number mant with the exponent x
FloatNumber(num_str, mant, x) ==
    FloatFrom(num_str, WithoutUnderscores(IntPart(mant)), WithoutUnderscores(FracPart(mant)), x)

\* float() of the unsigned text u under the sign of num_str, both without
\* whitespace at the ends
FloatOf(num_str, u) ==
    IF InfinityOk(u) THEN InfCell(Signed(num_str, 1))
    ELSE IF NanOk(u) THEN NanCell
    ELSE FloatNumber(num_str, MantissaOf(u, PositionsOf(u, {"e", "E"})),
                     ExponentValue(ExponentOf(u, PositionsOf(u, {"e", "E"}))))

\* float(s) of a string float() accepts
PyFloat(s) == FloatOf(NumberStrip(s), Unsigned(NumberStrip(s)))

\* v > 0.5
GreaterThanHalf(v) ==
    IF ~Finite(v) THEN v.s = <<"i","n","f">> /\ v.n = 1
    ELSE /\ v.n = 1
         /\ v.s /= <<"0">>
         /\ \/ v.e >= 0
            \/ v.e = -1 /\ (DigitVal(v.s[1]) > 5 \/ (v.s[1] = "5" /\ Len(v.s) > 1))

\* v < 100
LessThanHundred(v) ==
    IF ~Finite(v) THEN v.s = <<"i","n","f">> /\ v.n = -1
    ELSE v.n = -1 \/ v.s = <<"0">> \/ v.e < 2

-----------------------------------------------------------------------------
(* _extract_value_from_text *)

\* a range test that accepts every magnitude
AnyMagnitude(s) == TRUE

\* num_val > 0.5 and num_val < 100
InRange(num_val) == GreaterThanHalf(num_val) /\ LessThanHundred(num_val)

\* lines 553-556: num_val = float(val), then the range test
Plausible(s) == InRange(PyFloat(s))

\* the cleanup applied to a captured value: units removed, then stripped
CleanUnits(v) ==
    Strip(Replace(Replace(Replace(Replace(Replace(v,
        <<"m","m">>, <<>>), <<"mu","m">>, <<>>), <<"mu">>, <<>>), <<"D">>, <<>>), <<"deg">>, <<>>))

\* the capture [\d,\.]+ that starts at b, or <<>> when it would be empty
NumRun(t, b) == IF RunEnd(t, b, NumChars) > b THEN <<b, RunEnd(t, b, NumChars) - 1>> ELSE <<>>

\* [:=]\s*([\d,\.]+) at position a of t
SepThenNum(t, a) ==
    IF a > Len(t) \/ t[a] \notin {":", "="} THEN <<>> ELSE NumRun(t, RunEnd(t, a + 1, Space))

\* re.search(label\s*[:=]\s*([\d,\.]+)) at position i of t: the capture's
\* bounds <<from, to>>, or <<>> when the pattern does not match at i
StrictAt(t, i, label) ==
    IF ~StartsAt(t, i, label) THEN <<>> ELSE SepThenNum(t, RunEnd(t, i + Len(label), Space))

\* the capture of the leftmost match of the strict pattern, or <<>>
StrictSearch(t, label) == FirstNonEmpty([i \in 1..Len(t) |-> StrictAt(t, i, label)])

\* the first [\d,\.]+ run at or after position from, or <<>>
NumRunAfter(t, from) == FirstNonEmpty([k \in 1..Len(t) |-> IF k >= from THEN NumRun(t, k) ELSE <<>>])

\* re.search(label.*?([\d,\.]+), DOTALL): the leftmost label that has a number
\* character somewhere after it; the capture is the first run after it
LazySearch(t, label) ==
    FirstNonEmpty([i \in 1..Len(t) |->
        IF StartsAt(t, i, label) THEN NumRunAfter(t, i + Len(label)) ELSE <<>>])

\* re.findall([\d,\.]+): the start positions of the maximal runs
NumberStarts(t) ==
    {i \in 1..Len(t) : t[i] \in NumChars /\ (i = 1 \/ t[i - 1] \notin NumChars)}

\* one token of the plausibility scan, as the code prepares it
ScanToken(t, i) == Strip(Replace(SubSeq(t, i, RunEnd(t, i, NumChars) - 1), <<",">>, <<".">>))

\* a token of the plausibility scan when it is numeric and plausible, else <<>>
GoodToken(tok) == IF _is_numeric(tok) /\ Plausible(tok) THEN tok ELSE <<>>

\* pattern 3: the first number token that is numeric and plausible, or ""
PlausibilityScan(text) ==
    FirstNonEmpty([i \in 1..Len(text) |->
        IF i \in NumberStarts(text) THEN GoodToken(ScanToken(text, i)) ELSE <<>>])

\* v if self._is_numeric(v), else nothing
NumericOrNone(v) == IF _is_numeric(v) THEN v ELSE <<>>

\* the value a capture <<from, to>> of text_upper yields when it is numeric:
\* cleaned, comma to point
CaptureValue(t, cap) ==
    IF cap = <<>> THEN <<>>
    ELSE NumericOrNone(Replace(CleanUnits(Strip(SubSeq(t, cap[1], cap[2]))), <<",">>, <<".">>))

\* the three patterns on text_upper (text.upper()); the scan reads the text as given
ValueFromUpper(text, text_upper, label) ==
    FirstNonEmpty(<<CaptureValue(text_upper, StrictSearch(text_upper, label)),
                    CaptureValue(text_upper, LazySearch(text_upper, label)),
                    PlausibilityScan(text)>>)

_extract_value_from_text(text, label) == ValueFromUpper(text, Upper(text), label)

-----------------------------------------------------------------------------
(* _extract_modele_implante and _extract_value_from_cell *)

\* (\d+) at position d of t, followed by \s*deg when withDeg: the digits, or <<>>
AxisDigits(t, d, e, withDeg) ==
    IF e > d /\ (withDeg => StartsAt(t, RunEnd(t, e, Space), <<"deg">>))
    THEN SubSeq(t, d, e - 1) ELSE <<>>

\* @\s*(\d+) at position i of t, with \s*deg after it when withDeg
AxisAt(t, i, d, withDeg) ==
    IF t[i] = "@" THEN AxisDigits(t, d, RunEnd(t, d, Digits), withDeg) ELSE <<>>

\* re.search(@\s*(\d+)\s*deg) when withDeg, re.search(@\s*(\d+)) otherwise,
\* over the positions from..Len(t): the captured digits of the leftmost
\* match, or ""
AxisSearchFrom(t, from, withDeg) ==
    FirstNonEmpty([i \in 1..Len(t) |->
        IF i >= from THEN AxisAt(t, i, RunEnd(t, i + 1, Space), withDeg) ELSE <<>>])

AxisSearch(t, withDeg) == AxisSearchFrom(t, 1, withDeg)

\* the cell after col_idx when the row has one that is not empty, else ""
NextCell(row, col_idx) == IF col_idx + 1 < Len(row) THEN row[col_idx + 2] ELSE <<>>

\* the searches in another order: the cell with and without degree mark,
\* then its right neighbour
AxisOfCellsCellFirst(cell_text, next) ==
    FirstNonEmpty(<<AxisSearch(cell_text, TRUE), AxisSearch(cell_text, FALSE),
                    AxisSearch(next, TRUE), AxisSearch(next, FALSE)>>)

\* the four searches on the cell and its right neighbour
AxisOfCells(cell_text, next) ==
    FirstNonEmpty(<<AxisSearch(cell_text, TRUE), AxisSearch(next, TRUE),
                    AxisSearch(cell_text, FALSE), AxisSearch(next, FALSE)>>)

\* row is a sequence of cells, col_idx is 0-based as in the source
_extract_modele_implante(cell_text, row, col_idx) == AxisOfCells(cell_text, NextCell(row, col_idx))

\* the cleanup of _extract_value_from_cell; "" when the outcome is not numeric
CellClean(c) ==
    NumericOrNone(Strip(Replace(Replace(Replace(Strip(c), <<"m","m">>, <<>>), <<"D">>, <<>>), <<"deg">>, <<>>)))

\* the cell below (row_idx, col_idx) when the table has one, else ""
CellBelow(table, row_idx, col_idx) ==
    IF row_idx + 1 < Len(table) /\ col_idx < Len(table[row_idx + 2])
    THEN table[row_idx + 2][col_idx + 1] ELSE <<>>

\* table is a sequence of rows; col_idx and row_idx are 0-based as in the source
_extract_value_from_cell(row, col_idx, table, row_idx) ==
    FirstNonEmpty(<<CellClean(IF col_idx < Len(row) THEN row[col_idx + 1] ELSE <<>>),
                    CellClean(NextCell(row, col_idx)),
                    CellClean(CellBelow(table, row_idx, col_idx))>>)

-----------------------------------------------------------------------------
(* Demographics: patient identifier, birth date, age *)

\* the group after a [:\s]+ run that ends at d
IdGroupFrom(t, c, d) ==
    IF d = c THEN <<>>
    ELSE IF d <= Len(t) /\ t[d] \in IdChars
         THEN <<Strip(SubSeq(t, d, RunEnd(t, d, IdChars) - 1))>>
         ELSE IF \E k \in (c + 1)..(d - 1) : t[k] \in Space THEN << <<>> >> ELSE <<>>

\* ([A-Z0-9_\-\s]+) after a [:\s]+ that starts at c, then .strip(): <<value>>
\* when the pattern matches there, <<>> when it does not.  When the character
\* after the colon/space run is not of the class, the regex gives the run's
\* last whitespace back to the group and the stripped capture is "".
IdGroupAt(t, c) == IdGroupFrom(t, c, RunEnd(t, c, ColonSpace))

\* the rest of an identifier pattern after its first word: the separator run
\* a..b-1 must not be empty, then the second word, then the group
IdAfterWord(t, u, a, b, word) ==
    IF b > a /\ StartsAt(u, b, word) THEN IdGroupAt(t, b + Len(word)) ELSE <<>>

\* ID\s+Patient[:\s]+(...) at position i; u is the text folded as re.IGNORECASE folds it
IdPatientAt(t, u, i) ==
    IF StartsAt(u, i, <<"I","D">>)
    THEN IdAfterWord(t, u, i + 2, RunEnd(t, i + 2, Space), <<"P","A","T","I","E","N","T">>)
    ELSE <<>>

\* Patient[:\s]+ID[:\s]+(...) at position i
PatientIdAt(t, u, i) ==
    IF StartsAt(u, i, <<"P","A","T","I","E","N","T">>)
    THEN IdAfterWord(t, u, i + 7, RunEnd(t, i + 7, ColonSpace), <<"I","D">>)
    ELSE <<>>

\* the group of the leftmost match m (<<value>>), "" when nothing matched
GroupOf(m) == IF m = <<>> THEN <<>> ELSE m[1]

\* _extract_field with the first (and third) identifier pattern
ExtractIdPatient(t, u) == GroupOf(FirstNonEmpty([i \in 1..Len(t) |-> IdPatientAt(t, u, i)]))

\* _extract_field with the second identifier pattern
ExtractPatientId(t, u) == GroupOf(FirstNonEmpty([i \in 1..Len(t) |-> PatientIdAt(t, u, i)]))

\* lines 53-59: the captured identifier before normalisation; the third
\* pattern is the first one again under re.IGNORECASE
CapturedIdUpper(t, u) ==
    FirstNonEmpty(<<ExtractIdPatient(t, u), ExtractPatientId(t, u)>>)

CapturedId(t) == CapturedIdUpper(t, Fold(t))

\* the captured identifier with the surrounding whitespace removed
StripOnly(captured) == Strip(captured)

\* digits_only if digits_only else patient_id.strip()
DigitsOrStripped(digits_only, captured) ==
    IF digits_only /= <<>> THEN digits_only ELSE Strip(captured)

\* lines 61-65: digits only when there is a digit, else the stripped capture
NormalizeId(captured) ==
    IF captured = <<>> THEN <<>> ELSE DigitsOrStripped(DigitsOnly(captured), captured)

DateSeps == {"/", "-", "."}

\* the year \d{2,4} from position y, e3 the end of the digit run at y: the
\* capture's last position, or 0 when there are fewer than two digits
YearEnd(y, e3) == IF e3 - y >= 2 THEN Min({e3 - 1, y + 3}) ELSE 0

\* \d{1,2}[/\-\.] from position p, e the end of the digit run at p
NumSep(t, p, e) == e - p \in {1, 2} /\ e <= Len(t) /\ t[e] \in DateSeps

\* the month and the year of the date group from position p
MonthYear(t, p0, p, e) ==
    IF NumSep(t, p, e) /\ YearEnd(e + 1, RunEnd(t, e + 1, Digits)) > 0
    THEN SubSeq(t, p0, YearEnd(e + 1, RunEnd(t, e + 1, Digits))) ELSE <<>>

\* the date group from position p, e the end of the digit run at p
DayMonthYear(t, p, e) ==
    IF NumSep(t, p, e) THEN MonthYear(t, p, e + 1, RunEnd(t, e + 1, Digits)) ELSE <<>>

\* (\d{1,2}[/\-\.]\d{1,2}[/\-\.]\d{2,4}) at position p: the capture or <<>>
DateGroupAt(t, p) == DayMonthYear(t, p, RunEnd(t, p, Digits))

\* the words of a label, separated by \s+, then [:\s]+, then the date group
RECURSIVE WordsAt(_, _, _)
\* position after the words ws matched from i (words separated by \s+), 0 if no match
WordsAt(u, i, wds) ==
    IF ~StartsAt(u, i, Head(wds)) THEN 0
    ELSE IF Len(wds) = 1 THEN i + Len(Head(wds))
    ELSE LET a == i + Len(Head(wds))
             b == RunEnd(u, a, Space)
         IN  IF b = a THEN 0 ELSE WordsAt(u, b, Tail(wds))

\* [:\s]+ then the date group, from position c after the label (0: no label)
DateAfterLabel(t, c) ==
    IF c = 0 THEN <<>>
    ELSE IF RunEnd(t, c, ColonSpace) = c THEN <<>>
    ELSE DateGroupAt(t, RunEnd(t, c, ColonSpace))

\* _extract_field with a birth-date pattern whose label is the words wds
ExtractDateUpper(t, u, wds) ==
    Strip(FirstNonEmpty([i \in 1..Len(t) |-> DateAfterLabel(t, WordsAt(u, i, wds))]))

ExtractDate(t, wds) == ExtractDateUpper(t, Fold(t), wds)

NeLeWords == << <<"N","E_acute","(","E",")">>, <<"L","E">> >>

NaissanceWords == << <<"D","A","T","E">>, <<"D","E">>,
                     <<"N","A","I","S","S","A","N","C","E">> >>

\* lines 76-83: the row is a birth-date row with a third cell
IsBirthRow(row) ==
    Len(row) >= 3 /\ Contains(Strip(row[1]), <<"N","e_acute">>) /\ row[3] /= <<>>

\* lines 75-86: the stripped third cell of the first birth-date row of a
\* table; the row loop ends there, whatever the cell holds
TableDate(table) ==
    IF \E r \in 1..Len(table) : IsBirthRow(table[r])
    THEN Strip(table[Min({r \in 1..Len(table) : IsBirthRow(table[r])})][3])
    ELSE <<>>

\* lines 73-88: the first table that yields a birth date
TableBirthDate(tbls) == FirstNonEmpty([ti \in 1..Len(tbls) |-> TableDate(tbls[ti])])

\* lines 68-89
ExtractBirthDate(t, tbls) ==
    FirstNonEmpty([p \in 1..3 |->
        IF p = 3 THEN TableBirthDate(tbls)
        ELSE ExtractDate(t, IF p = 1 THEN NeLeWords ELSE NaissanceWords)])

\* date_formats: separator and field order (Y: four-digit year, y: two-digit)
date_formats ==
    << [sep |-> ".", order |-> "dmY"], [sep |-> "/", order |-> "dmY"],
       [sep |-> "-", order |-> "dmY"], [sep |-> ".", order |-> "dmy"],
       [sep |-> "/", order |-> "dmy"], [sep |-> "-", order |-> "dmy"],
       [sep |-> ".", order |-> "Ymd"], [sep |-> "/", order |-> "Ymd"],
       [sep |-> "-", order |-> "Ymd"] >>

AllDigits(f) == \A k \in 1..Len(f) : f[k] \in Digits

\* strptime %d: 3[0-1] | [1-2]\d | 0[1-9] | [1-9] | space [1-9]
DayField(f) ==
    \/ Len(f) \in {1, 2} /\ AllDigits(f) /\ NatOf(f) \in 1..31
    \/ Len(f) = 2 /\ f[1] = " " /\ f[2] \in Digits /\ f[2] /= "0"

\* strptime %m: 1[0-2] | 0[1-9] | [1-9]
MonthField(f) == Len(f) \in {1, 2} /\ AllDigits(f) /\ NatOf(f) \in 1..12

IsLeap(y) == (y % 4 = 0 /\ y % 100 /= 0) \/ y % 400 = 0

DaysInMonth(y, m) ==
    IF m = 2 THEN (IF IsLeap(y) THEN 29 ELSE 28)
    ELSE IF m \in {4, 6, 9, 11} THEN 30 ELSE 31

\* strptime %y: 69..99 are 1969..1999, 0..68 are 2000..2068
TwoDigitYear(yy) == IF yy >= 69 THEN 1900 + yy ELSE 2000 + yy

\* the fields <<f1, f2, f3>> of s around the separator positions seps
FieldsOf(s, seps) ==
    IF Cardinality(seps) /= 2 THEN <<>>
    ELSE <<SubSeq(s, 1, Min(seps) - 1), SubSeq(s, Min(seps) + 1, Max(seps) - 1),
           SubSeq(s, Max(seps) + 1, Len(s))>>

\* the date of valid fields: y0 is the year strptime gives, d the day, m the
\* month; lines 726-727 add a century to a two-digit year before 1950
DateOf(y0, m, d, order) ==
    IF y0 >= 1 /\ d <= DaysInMonth(y0, m)
    THEN <<IF order = "dmy" /\ y0 < 1950 THEN y0 + 100 ELSE y0, m, d>>
    ELSE <<>>

\* strptime on the day, month and year fields
ParseFields(dayF, monthF, yearF, order) ==
    IF /\ DayField(dayF) /\ MonthField(monthF)
       /\ AllDigits(yearF)
       /\ Len(yearF) = (IF order = "dmy" THEN 2 ELSE 4)
    THEN DateOf(IF order = "dmy" THEN TwoDigitYear(NatOf(yearF)) ELSE NatOf(yearF),
                NatOf(monthF), NatOf(SelectSeq(dayF, LAMBDA c : c \in Digits)), order)
    ELSE <<>>

\* the fields in the order of the format
ParseOrdered(f, order) ==
    IF f = <<>> THEN <<>>
    ELSE ParseFields(IF order = "Ymd" THEN f[3] ELSE f[1], f[2],
                     IF order = "Ymd" THEN f[1] ELSE f[3], order)

\* datetime.strptime(s, fmt), then the two-digit-year adjustment of lines
\* 726-727: <<y, m, d>>, or <<>> for a ValueError
ParseWith(s, fmt) == ParseOrdered(FieldsOf(s, {k \in 1..Len(s) : s[k] = fmt.sep}), fmt.order)

\* lines 721-730: the first format that parses
ParseBirthDate(s) == FirstNonEmpty([i \in 1..Len(date_formats) |-> ParseWith(s, date_formats[i])])

\* (today.month, today.day) < (birth_date.month, birth_date.day)
BeforeBirthday(now, b) == now.m < b[2] \/ (now.m = b[2] /\ now.d < b[3])

\* the age, floored at zero
AgeClamped(now, b) == Max({0, now.y - b[1] - (IF BeforeBirthday(now, b) THEN 1 ELSE 0)})

\* lines 735-740
AgeOn(now, b) == IF BeforeBirthday(now, b) THEN now.y - b[1] - 1 ELSE now.y - b[1]

\* lines 732-740: "" without a birth date, else str(age)
AgeText(now, b) == IF b = <<>> THEN <<>> ELSE IntStr(AgeOn(now, b))

_calculate_age(s, now) == IF s = <<>> THEN <<>> ELSE AgeText(now, ParseBirthDate(s))

-----------------------------------------------------------------------------
(* Records (dicts) *)

\* the keys of a returned record: identity fields, then FIELD_MAPPING's values
Fields == {"ID Patient", "Age", "Oeil", "AL", "PACHY (mm)", "ACD epit", "LT",
           "K1", "K2", "WTW (mm)", "Axe"}

MeasurementFields == Fields \ {"ID Patient", "Age", "Oeil"}

EmptyDict == [k \in {} |-> <<>>]

\* d[k] = v
Put(d, k, v) == [x \in DOMAIN d \cup {k} |-> IF x = k THEN v ELSE d[x]]

\* if k not in d: d[k] = v
SetIfAbsent(d, k, v) == IF k \in DOMAIN d THEN d ELSE Put(d, k, v)

\* the (measurement label, record key) pairs the table loops iterate over
MeasLabels ==
    << [label |-> <<"A","L">>,     col |-> "AL"],
       [label |-> <<"C","C","T">>, col |-> "PACHY (mm)"],
       [label |-> <<"A","C","D">>, col |-> "ACD epit"],
       [label |-> <<"L","T">>,     col |-> "LT"],
       [label |-> <<"K","1">>,     col |-> "K1"],
       [label |-> <<"K","2">>,     col |-> "K2"],
       [label |-> <<"W","T","W">>, col |-> "WTW (mm)"] >>

-----------------------------------------------------------------------------
(* _extract_eye_data: the text fallback *)

\* [:\s]+([\d.,]+) at position c of u, c = 0 standing for a label that did
\* not match: the bounds <<from, to>> of the capture, or <<>>
LabelNumFrom(u, c) ==
    IF c = 0 THEN <<>>
    ELSE IF RunEnd(u, c, ColonSpace) = c THEN <<>>
    ELSE NumRun(u, RunEnd(u, c, ColonSpace))

\* LABEL[:\s]+([\d.,]+) at position j of the folded text u, the label
\* given as its words wds (separated by \s+)
LabelNumAt(u, j, wds) == LabelNumFrom(u, WordsAt(u, j, wds))

\* _extract_numeric_field on the capture cap of text t: comma to point,
\* float() or ""
NumericCapture(t, cap) ==
    IF cap = <<>> THEN <<>>
    ELSE NumericOrNone(Replace(Strip(SubSeq(t, cap[1], cap[2])), <<",">>, <<".">>))

\* the capture cap when the pattern's tail matches after it: \s*mm when mm
LabelHit(u, cap, mm) ==
    IF cap /= <<>> /\ (mm => StartsAt(u, RunEnd(u, cap[2] + 1, Space), <<"M","M">>))
    THEN cap ELSE <<>>

\* .*?LABEL[:\s]+([\d.,]+) from position from: the first label that matches
FirstLabelFrom(u, from, wds, mm) ==
    FirstNonEmpty([j \in 1..Len(u) |->
        IF j >= from THEN LabelHit(u, LabelNumAt(u, j, wds), mm) ELSE <<>>])

\* EYE[:\s]*.*?LABEL[:\s]+([\d.,]+) and, when mm, a following \s*mm
EyeThenLabel(t, u, eye, wds, mm) ==
    NumericCapture(t, FirstNonEmpty([i \in 1..Len(u) |->
        IF StartsAt(u, i, eye) THEN FirstLabelFrom(u, i + Len(eye), wds, mm) ELSE <<>>]))

\* the capture cap when the eye marker stands somewhere after it
LabelBeforeEye(u, cap, eye) ==
    IF cap /= <<>> /\ (\E k \in (cap[2] + 1)..Len(u) : StartsAt(u, k, eye)) THEN cap ELSE <<>>

\* LABEL[:\s]+([\d.,]+).*?EYE
LabelThenEye(t, u, eye, wds) ==
    NumericCapture(t, FirstNonEmpty([j \in 1..Len(u) |->
        LabelBeforeEye(u, LabelNumAt(u, j, wds), eye)]))

\* one measurement of _extract_eye_data: eye-then-label, label-then-eye, then
\* the field's third pattern when it has one (third = <<>> when it has none)
EyeField(t, u, eye, wds, third, mm) ==
    Replace(FirstNonEmpty([p \in 1..3 |->
                IF p = 2 THEN LabelThenEye(t, u, eye, wds)
                ELSE IF p = 3 /\ third = <<>> THEN <<>>
                ELSE EyeThenLabel(t, u, eye, IF p = 1 THEN wds ELSE third, p = 3 /\ mm)]),
            <<",">>, <<".">>)

\* EYE[:\s]*.*?@\s*(\d+) with or without the degree sign
EyeThenAxis(t, u, eye, withDeg) ==
    FirstNonEmpty([i \in 1..Len(t) |->
        IF StartsAt(u, i, eye) THEN AxisSearchFrom(t, i + Len(eye), withDeg) ELSE <<>>])

\* lines 662-677
EyeAxis(t, u, eye) ==
    FirstNonEmpty([p \in 1..4 |->
        IF p \in {1, 3} THEN EyeThenAxis(t, u, eye, p = 1) ELSE AxisSearch(t, p = 2)])

\* the patterns of lines 612-660 per record key: the label of the first two
\* patterns, the label of the third (<<>> when there is none), the mm tail
TextPatterns ==
    [k \in MeasurementFields \ {"Axe"} |->
        CASE k = "AL" -> [first |-> << <<"A","L">> >>, third |-> << <<"A","L">> >>, mm |-> TRUE]
          [] k = "PACHY (mm)" -> [first |-> << <<"C","C","T">> >>, third |-> << <<"P","A","C","H","Y">> >>, mm |-> FALSE]
          [] k = "ACD epit" -> [first |-> << <<"A","C","D">> >>, third |-> << <<"A","C","D">>, <<"E","P","I","T">> >>, mm |-> FALSE]
          [] k = "LT" -> [first |-> << <<"L","T">> >>, third |-> <<>>, mm |-> FALSE]
          [] k = "K1" -> [first |-> << <<"K","1">> >>, third |-> <<>>, mm |-> FALSE]
          [] k = "K2" -> [first |-> << <<"K","2">> >>, third |-> <<>>, mm |-> FALSE]
          [] k = "WTW (mm)" -> [first |-> << <<"W","T","W">> >>, third |-> <<>>, mm |-> FALSE]]

\* the searches run on the text with re.IGNORECASE: u is the folded text
EyeDataUpper(t, u, eye) ==
    [k \in MeasurementFields |->
        IF k = "Axe" THEN EyeAxis(t, u, eye)
        ELSE EyeField(t, u, eye, TextPatterns[k].first, TextPatterns[k].third, TextPatterns[k].mm)]

\* eye is <<"O","D">> or <<"O","S">>
_extract_eye_data(t, eye) == EyeDataUpper(t, Fold(t), eye)

\* lines 111-121 and 125-135: identity fields attached, K1/K2/Axe defaulted
WithIdentity(d, side, pid, a) ==
    SetIfAbsent(SetIfAbsent(SetIfAbsent(
        Put(Put(Put(d, "ID Patient", pid), "Age", a), "Oeil", side),
        "K1", <<>>), "K2", <<>>), "Axe", <<>>)

TextRecord(t, eye, side, pid, a) == WithIdentity(_extract_eye_data(t, eye), side, pid, a)

-----------------------------------------------------------------------------
(* _extract_from_tables: layout of one table *)

None == -1

OD == <<"O","D">>

OS == <<"O","S">>

RECURSIVE Concat(_)
\* the concatenation of a sequence of sequences
Concat(ss) == IF Len(ss) = 0 THEN <<>> ELSE Head(ss) \o Concat(Tail(ss))

RECURSIVE Join(_)
\* " ".join(cells)
Join(cells) ==
    IF Len(cells) = 0 THEN <<>>
    ELSE IF Len(cells) = 1 THEN Head(cells)
    ELSE Head(cells) \o <<" ">> \o Join(Tail(cells))

\* row_text of lines 169 and 421
RowText(row) == Upper(Join(row))

\* lines 172-175: the row carries an eye marker
IsHeaderRow(row) ==
    Len(row) > 0 /\ (Contains(RowText(row), OD) \/ Contains(RowText(row), OS))

\* the rows with an eye marker
HeaderRows(table) == {r \in 1..Len(table) : IsHeaderRow(table[r])}

\* lines 165-177: the first row with an eye marker (1-based), 0 when there is none
HeaderRow(table) == IF HeaderRows(table) = {} THEN 0 ELSE Min(HeaderRows(table))

\* lines 180-193: the first cell with OD and without OS, or None
HeaderOdCol(row) ==
    LET cs == {c \in 1..Len(row) :
                  Contains(Upper(row[c]), OD) /\ ~Contains(Upper(row[c]), OS)}
    IN  IF cs = {} THEN None ELSE Min(cs) - 1

\* lines 180-193: the first cell with OS that is not taken by the OD branch
\* and does not contain OD, or None.  A cell with OD and without OS reaches
\* the elif only once od_col_idx is set, and then cannot contain OS.
HeaderOsCol(row) ==
    LET cs == {c \in 1..Len(row) :
                  Contains(Upper(row[c]), OS) /\ ~Contains(Upper(row[c]), OD)}
    IN  IF cs = {} THEN None ELSE Min(cs) - 1

\* max(len(row) for row in table if row)
MaxCols(table) == Max({Len(table[r]) : r \in 1..Len(table)} \cup {0})

\* lines 249-259: the position heuristic for a header whose two columns coincide
HeuristicCols(table) ==
    IF MaxCols(table) >= 4 THEN <<0, 4>>
    ELSE <<0, IF MaxCols(table) > 1 THEN MaxCols(table) - 1 ELSE 1>>

\* lines 267-279: the defaults of a detected header
DefaultOd(c) == IF c = None THEN 0 ELSE c

DefaultOs(c) == IF c = None THEN 4 ELSE c

\* lines 195-279 for the columns od0, os0 the header cells gave: the branch
\* of line 195 for coinciding columns, then the defaults
ColumnsFrom(table, od0, os0) ==
    IF od0 = os0 /\ od0 /= None THEN HeuristicCols(table)
    ELSE <<DefaultOd(od0), DefaultOs(os0)>>

\* lines 180-279: <<od_col_idx, os_col_idx>> used for the rows of the table
\* whose header is row h
ResolveColumns(table, h) == ColumnsFrom(table, HeaderOdCol(table[h]), HeaderOsCol(table[h]))

\* line 283: the last row read (1-based) for a header at row h (1-based)
ScanLimit == 20

LastScanRow(table, h) == Min({h - 1 + ScanLimit, Len(table)})

-----------------------------------------------------------------------------
(* _extract_from_tables: the writes of one row *)

\* a write: eye "OD"/"OS", key, value, and whether it is unconditional
Write(eye, key, val, force) == [eye |-> eye, key |-> key, val |-> val, force |-> force]

\* lines 311-326: the accumulator an inline match at column col goes to
InlineEye(col, odc, osc) ==
    IF odc /= None /\ col = odc THEN "OD"
    ELSE IF osc /= None /\ col = osc THEN "OS"
    ELSE IF col < 4 THEN "OD" ELSE "OS"

\* lines 357, 369: the accumulator by position only
PositionEye(col) == IF col < 4 THEN "OD" ELSE "OS"

\* a guarded write of a value that was found, no write for ""
WriteIf(eye, key, val) == IF val /= <<>> THEN <<Write(eye, key, val, FALSE)>> ELSE <<>>

\* lines 294-326, one cell
InlineWrites(cell, col, odc, osc) ==
    Concat([l \in 1..Len(MeasLabels) |->
        IF cell /= <<>> /\ Contains(Upper(cell), MeasLabels[l].label \o <<":">>)
        THEN WriteIf(InlineEye(col, odc, osc), MeasLabels[l].col,
                     _extract_value_from_text(cell, MeasLabels[l].label))
        ELSE <<>>])

RECURSIVE Split(_, _)
\* str.split(sep), sep one character
Split(s, sep) ==
    IF \A k \in 1..Len(s) : s[k] /= sep THEN <<s>>
    ELSE LET k == Min({i \in 1..Len(s) : s[i] = sep})
         IN  <<SubSeq(s, 1, k - 1)>> \o Split(SubSeq(s, k + 1, Len(s)), sep)

\* line 336: the stripped non-empty lines of a cell
StrippedLines(parts) ==
    SelectSeq([i \in 1..Len(parts) |-> Strip(parts[i])], LAMBDA ln : ln /= <<>>)

Lines(cell) == StrippedLines(Split(cell, "\n"))

\* lines 349-352: second line first, whole cell second
MultilineValue(cell, second_line, label) ==
    FirstNonEmpty([i \in 1..2 |->
        _extract_value_from_text(IF i = 1 THEN second_line ELSE cell, label)])

\* lines 338-364: the writes of a cell whose stripped lines are lines
LabelledLines(cell, lines, col) ==
    Concat([l \in 1..Len(MeasLabels) |->
        IF Len(lines) >= 2 /\ Contains(Upper(lines[1]), MeasLabels[l].label)
        THEN WriteIf(PositionEye(col), MeasLabels[l].col,
                     MultilineValue(cell, lines[2], MeasLabels[l].label))
        ELSE <<>>])

\* lines 330-364, one cell
MultilineWrites(cell, col) ==
    IF cell /= <<>> /\ Contains(cell, <<"\n">>) THEN LabelledLines(cell, Lines(cell), col) ELSE <<>>

\* lines 368-412, one cell: the label scan, then the axis next to K1
CellWrites(cell, row, col) ==
    Concat([l \in 1..Len(MeasLabels) |->
        IF cell /= <<>> /\ Contains(Upper(cell), MeasLabels[l].label)
        THEN WriteIf(PositionEye(col), MeasLabels[l].col,
                     _extract_value_from_text(cell, MeasLabels[l].label))
        ELSE <<>>])
    \o (IF cell /= <<>> /\ Contains(Upper(cell), <<"K","1">>)
        THEN WriteIf(PositionEye(col), "Axe", _extract_modele_implante(cell, row, col))
        ELSE <<>>)

ColumnWrites(row, col) == CellWrites(row[col + 1], row, col)

\* lines 284-412: the writes of one row after the header, in program order
RowWrites(row, odc, osc) ==
    Concat([c \in 1..Len(row) |-> InlineWrites(row[c], c - 1, odc, osc)])
    \o Concat([c \in 1..Len(row) |-> MultilineWrites(row[c], c - 1)])
    \o Concat([c \in 1..Len(row) |-> ColumnWrites(row, c - 1)])

\* lines 430-450: the write of value val for a label found at column col
FallbackWrite(row, col, key, val) ==
    IF Contains(RowText(row), OD) /\ col < Len(row) \div 2
    THEN <<Write("OD", key, val, TRUE)>>
    ELSE IF Contains(RowText(row), OS) /\ col >= Len(row) \div 2
         THEN <<Write("OS", key, val, TRUE)>>
         ELSE <<>>

\* lines 430-450, one cell of a row of the fallback branch (row_idx 0-based)
FallbackCellWrites(table, row_idx, col) ==
    Concat([l \in 1..Len(MeasLabels) |->
        IF Contains(Upper(table[row_idx + 1][col + 1]), MeasLabels[l].label)
        THEN FallbackWrite(table[row_idx + 1], col, MeasLabels[l].col,
                           _extract_value_from_cell(table[row_idx + 1], col, table, row_idx))
        ELSE <<>>])

\* lines 417-450: the writes of one row of the fallback branch
FallbackRowWrites(table, row_idx) ==
    IF IsHeaderRow(table[row_idx + 1])
    THEN Concat([c \in 1..Len(table[row_idx + 1]) |-> FallbackCellWrites(table, row_idx, c - 1)])
    ELSE <<>>

RECURSIVE Apply(_, _)
\* the accumulators <<od_data, os_data>> after the writes ws, in order
Apply(acc, wr) ==
    IF Len(wr) = 0 THEN acc
    ELSE LET w == Head(wr)
             i == IF w.eye = "OD" THEN 1 ELSE 2
             d == IF w.force THEN Put(acc[i], w.key, w.val)
                  ELSE SetIfAbsent(acc[i], w.key, w.val)
         IN  Apply([acc EXCEPT ![i] = d], Tail(wr))

\* lines 455-469 and 471-485: one eye's returned record
FinalRecord(d, side, pid, a) ==
    IF DOMAIN d = {}
    THEN [k \in {"Oeil", "ID Patient", "Age", "K1", "K2", "Axe"} |->
             CASE k = "Oeil" -> side [] k = "ID Patient" -> pid [] k = "Age" -> a
               [] OTHER -> <<>>]
    ELSE WithIdentity(d, side, pid, a)

\* the two records with the sides exchanged
TablesReturnSwapped(od, os, pid, a) ==
    IF DOMAIN od /= {} \/ DOMAIN os /= {}
    THEN <<FinalRecord(os, OS, pid, a), FinalRecord(od, OD, pid, a)>>
    ELSE <<>>

\* lines 454-490: <<od, os>>, or <<>> for (None, None)
TablesReturn(od, os, pid, a) ==
    IF DOMAIN od /= {} \/ DOMAIN os /= {}
    THEN <<FinalRecord(od, OD, pid, a), FinalRecord(os, OS, pid, a)>>
    ELSE <<>>

-----------------------------------------------------------------------------
(* The reports the model reads: cell texts, rows, tables, page texts *)

\* header marker of the right eye: 'OD'
cOD == <<"O","D">>

\* header marker of the left eye: 'OS'
cOS == <<"O","S">>

\* K1 with an axis without degree mark, K1 without axis, an axis alone with
\* and without degree mark
cK1Plain == <<"K","1",":"," ","4","4",".","5"," ","D"," ","@"," ","9","0">>

cK1Bare == <<"K","1",":"," ","4","4",".","5"," ","D">>

cAxisDeg == <<"@"," ","1","0","5","deg">>

cAxisPlain == <<"@"," ","7","5">>

\* header cell with both markers: 'OD / OS'
cBoth == <<"O","D"," ","/"," ","O","S">>

\* an inline value: 'AL: 23.50mm'
cALx == <<"A","L",":"," ","2","3",".","5","0","m","m">>

\* another inline value: 'AL: 23.80mm'
cALy == <<"A","L",":"," ","2","3",".","8","0","m","m">>

\* a multi-line cell: label, then value: 'AL\n24,18mm'
cMulti == <<"A","L","\n","2","4",",","1","8","m","m">>

\* an inline K1 with its axis: 'K1: 44.5 D @ 105 deg'
cK1 == <<"K","1",":"," ","4","4",".","5"," ","D"," ","@"," ","1","0","5","deg">>

\* an eye marker and a label in one cell: 'OD AL'
cOdAl == <<"O","D"," ","A","L">>

\* the same for the left eye: 'OS AL'
cOsAl == <<"O","S"," ","A","L">>

\* a bare number: '23.9'
cNumA == <<"2","3",".","9">>

\* a bare number with a unit: '24.1 mm'
cNumB == <<"2","4",".","1"," ","m","m">>

\* the birth-date label of a table: 'Ne(e) le'
cNeLe == <<"N","e_acute","(","e",")"," ","l","e">>

\* a birth date: '17.08.2010'
cBirth == <<"1","7",".","0","8",".","2","0","1","0">>

\* a report without text: ''
txNone == <<>>

\* identifier, birth date and both eyes in the text: 'ID Patient: 251-093\nNe(e) le: 17.08.2010\nOD AL: 23,50 mm K1: 44.5 @ 105 deg\nOS AL: 23.80 mm'
txFull == <<"I","D"," ","P","a","t","i","e","n","t",":"," ","2","5","1","-","0","9","3","\n","N","e_acute","(","e",")"," ","l","e",":"," ","1","7",".","0","8",".","2","0","1","0","\n","O","D"," ","A","L",":"," ","2","3",",","5","0"," ","m","m"," ","K","1",":"," ","4","4",".","5"," ","@"," ","1","0","5","deg","\n","O","S"," ","A","L",":"," ","2","3",".","8","0"," ","m","m">>

\* an identifier without digits: 'Patient ID: abc .\nOS AL 24.0\nOD'
txLetters == <<"P","a","t","i","e","n","t"," ","I","D",":"," ","a","b","c"," ",".","\n","O","S"," ","A","L"," ","2","4",".","0","\n","O","D">>

\* an identifier with leading zeros, a two-digit birth year: 'ID patient 007-A\nDate de naissance: 5/3/95'
txZeros == <<"I","D"," ","p","a","t","i","e","n","t"," ","0","0","7","-","A","\n","D","a","t","e"," ","d","e"," ","n","a","i","s","s","a","n","c","e",":"," ","5","/","3","/","9","5">>

\* an identifier around a form feed: 'ID Patient: a\fb'
txFormFeed == <<"I","D"," ","P","a","t","i","e","n","t",":"," ","a","\f","b">>

\* lines that end in carriage return and line feed: 'ID Patient: ab\r\nNom: X'
txReturn == <<"I","D"," ","P","a","t","i","e","n","t",":"," ","a","b","\r","\n","N","o","m",":"," ","X">>

\* a row of w cells, empty but for text t in column c (0-based)
Row1(w, c, t) == [i \in 1..w |-> IF i = c + 1 THEN t ELSE <<>>]

\* a row of w cells, empty but for t1 in column c1 and t2 in column c2
Row2(w, c1, t1, c2, t2) ==
    [i \in 1..w |-> IF i = c1 + 1 THEN t1 ELSE IF i = c2 + 1 THEN t2 ELSE <<>>]

\* the largest number of rows below the header of a generated table
MaxRows == 2

\* table layouts <<width, OD column, OS column>>
Layouts == {<<5, 0, 4>>, <<3, 0, 2>>, <<6, 4, 5>>, <<5, 4, 0>>}

\* the cells a generated row carries in the OD column and in the OS column
OdCells == {<<>>, cALx, cMulti}

OsCells == {<<>>, cALy, cK1}

\* the sequences over S of length 1..n
SeqsUpTo(S, n) == UNION {[1..k -> S] : k \in 1..n}

\* tables with both eye markers in the header row and values in their columns
MarkedTables ==
    UNION {{<<Row2(l[1], l[2], cOD, l[3], cOS)>> \o rows :
              rows \in SeqsUpTo({Row2(l[1], l[2], t1, l[3], t2) : t1 \in OdCells, t2 \in OsCells},
                                MaxRows)} : l \in Layouts}

\* tables whose header names one eye only
OneMarkerTables ==
    {<<Row1(5, 0, cOD), r>> : r \in {Row2(5, 0, t1, 4, t2) : t1 \in OdCells, t2 \in OsCells}}
    \cup {<<Row1(5, 2, cOS), r>> : r \in {Row2(5, 0, t1, 2, t2) : t1 \in OdCells, t2 \in OsCells}}

\* tables whose header names one eye only, in the column that is the default
\* of the other eye: the right eye in column 4, the left eye in column 0
DefaultColumnTables ==
    {<<Row1(5, 4, cOD), r>> : r \in {Row2(5, 0, t1, 4, t2) : t1 \in OdCells, t2 \in OsCells}}
    \cup {<<Row1(5, 0, cOS), r>> : r \in {Row2(5, 0, t1, 4, t2) : t1 \in OdCells, t2 \in OsCells}}

\* the widths of the narrow tables
NarrowWidths == {2, 3, 4}

\* tables narrower than five columns whose header names the right eye only,
\* with values in the first and in the last column
NarrowTables ==
    UNION {{<<Row1(w, 0, cOD), Row2(w, 0, t1, w - 1, t2)>> : t1 \in OdCells, t2 \in OsCells} :
              w \in NarrowWidths}

\* layouts <<width, first value column, second value column>> of the tables
\* whose header holds both eye markers in one cell
CombinedLayouts == {<<3, 1, 2>>, <<6, 1, 5>>}

\* tables whose first header cell holds both eye markers, the second header
\* cell being empty or naming the left eye
CombinedTables ==
    UNION {{<<Row2(l[1], 0, cBoth, 1, c), Row2(l[1], l[2], t1, l[3], t2)>> :
              c \in {<<>>, cOS}, t1 \in OdCells, t2 \in OsCells} : l \in CombinedLayouts}

\* the numbers of rows below the header of the long tables: the last row is
\* the last one read, the first one not read, the one after it
LongRowCounts == {ScanLimit - 1, ScanLimit, ScanLimit + 1}

\* a table with both markers in the header, n rows below it, all of them
\* empty but the last, which carries both inline values
LongTable(n) ==
    <<Row2(5, 0, cOD, 4, cOS)>>
    \o [i \in 1..n |-> IF i = n THEN Row2(5, 0, cALx, 4, cALy) ELSE Row1(5, 0, <<>>)]

LongTables == {LongTable(n) : n \in LongRowCounts}

\* the first and the second cell of the rows of the axis tables
AxisFirstCells == {cK1, cK1Plain, cK1Bare}

AxisSecondCells == {<<>>, cAxisDeg, cAxisPlain}

\* tables with one or two rows below the header whose first cell holds K1 and
\* whose second cell may hold the axis
AxisTables ==
    {<<Row2(5, 0, cOD, 4, cOS)>> \o rows :
        rows \in SeqsUpTo({Row2(5, 0, a, 1, b) : a \in AxisFirstCells, b \in AxisSecondCells},
                          MaxRows)}

\* tables whose marked cells carry a label and no value anywhere near: both
\* eyes labelled in two rows, the right eye alone above an empty row
LabelOnlyTables ==
    {<< <<cOdAl, <<>>, cOsAl, <<>> >>, <<cOdAl, <<>>, cOsAl, <<>> >> >>,
     << <<cOdAl, <<>>, <<>>, <<>> >>, Row1(4, 0, <<>>) >>}

\* tables whose value cells hold what float() reads and a measurement never
\* is: 'nan', an exponent, digits around an underscore, 'inf'
NumberWordTables ==
    {<< <<cOdAl, <<"n","a","n">>, cOsAl, <<"1","e","5">> >>, Row1(4, 0, <<>>) >>,
     << <<cOdAl, <<"1","_","0">>, cOsAl, <<"i","n","f">> >>, Row1(4, 0, <<>>) >>}

\* rows that carry eye marker, label and value side by side
InlineRows == {<<cOdAl, cNumA, cOsAl, cNumB>>, <<cOdAl, cNumB, cOsAl, <<>> >>,
               <<cOD, <<>>, cOS, <<>> >>, << <<>>, cNumA, <<>>, cNumB>>}

SideBySideTables == [1..2 -> InlineRows] \cup [1..3 -> InlineRows \ {<<cOD, <<>>, cOS, <<>> >>}]

\* a table of demographics, a table too small to be read, a table without markers
DemoTable == << <<cNeLe, <<>>, cBirth>>, <<cNumA, <<>>, <<>> >> >>

SmallTable == << <<cOD, cALx, cOS>> >>

PlainTable == << <<cALx, <<>>, <<>>, <<>>, cALy>>, <<cNumA, <<>>, <<>>, <<>>, <<>> >> >>

\* the tables of reports with two tables
PairTables ==
    {DemoTable, SmallTable, PlainTable,
     <<Row2(5, 0, cOD, 4, cOS), Row2(5, 0, cALx, 4, <<>>)>>,
     <<Row2(5, 0, cOD, 4, cOS), Row2(5, 0, cMulti, 4, cALy)>>,
     <<Row2(3, 0, cOD, 2, cOS), Row2(3, 0, <<>>, 2, cK1)>>,
     << <<cOdAl, cNumA, cOsAl, cNumB>>, <<cOdAl, cNumB, cOsAl, <<>> >> >>}

\* the table lists of reports with one table, and with none or two
SingleLists ==
    {<<t>> : t \in MarkedTables \cup OneMarkerTables \cup SideBySideTables
                     \cup NarrowTables \cup CombinedTables \cup LongTables
                     \cup AxisTables \cup LabelOnlyTables
                     \cup NumberWordTables
                     \cup DefaultColumnTables}

PairLists == {<<>>} \cup {<<t, u>> : t \in PairTables, u \in PairTables}

Texts == {txNone, txFull, txLetters, txZeros, txFormFeed, txReturn}

\* the reports <<full_text, tables>>: every one-table report without page
\* text, and every page text with every list of no or two tables
Reports == {<<txNone, tl>> : tl \in SingleLists} \cup (Texts \X PairLists)

\* datetime.now() of a parse call
ParseDays == {[y |-> 2024, m |-> 1, d |-> 1]}

-----------------------------------------------------------------------------
(* parse: the call as a state machine *)

\* the variables of the merge call and of the age computation, at rest
IdleMerge ==
    /\ ws = <<>> /\ new_rows = <<>> /\ prev_rows = <<>> /\ ws_before = <<>> /\ added = 0
    /\ styles = <<>> /\ wb = "none"

\* the variables of a call of _extract_value_from_text, at rest
IdleValue == arg_text = <<>> /\ arg_label = <<>> /\ ret_val = <<>>

\* the variables of the request, at rest
IdleBatch ==
    /\ pdf_files = <<>> /\ file_idx = 0 /\ all_rows = <<>> /\ response = <<>>
    /\ temp_file = "none"

\* the handle stays open
LeftOpen(handle) == handle

\* PDF.__exit__ of the with statement of line 36: the handle is closed
ExitWith(handle) == "closed"

Init ==
    /\ pc = "open"
    /\ pdf = "none" /\ raised = ""
    /\ IdleBatch
    /\ IdleValue
    /\ today \in ParseDays
    /\ \E r \in Reports : full_text = r[1] /\ tables = r[2]
    /\ patient_id = <<>> /\ age = <<>> /\ birth_date_str = <<>>
    /\ tix = 0 /\ header_row_idx = 0 /\ od_col_idx = None /\ os_col_idx = None /\ rix = 0
    /\ od_data = EmptyDict /\ os_data = EmptyDict
    /\ table_result = <<>> /\ result = <<>>
    /\ IdleMerge

\* line 36: pdfplumber.open gives the handle, or raises for a file it cannot
\* read and no handle exists
OpenPdf ==
    /\ pc = "open"
    /\ \E readable \in BOOLEAN :
          IF readable
          THEN pdf' = "open" /\ pc' = "start" /\ raised' = raised
          ELSE pdf' = pdf /\ pc' = "raised" /\ raised' = "open"
    /\ UNCHANGED <<today, full_text, tables, patient_id, age, birth_date_str, tix,
                   header_row_idx, od_col_idx, os_col_idx, rix, od_data, os_data,
                   table_result, result, mergeVars, batchVars, valueVars>>

\* lines 41-48: extract_tables or extract_text raises on a damaged page; the
\* exception leaves the with statement, which closes the handle
PageRaises ==
    /\ pc = "start"
    /\ pdf' = ExitWith(pdf)
    /\ raised' = "page"
    /\ pc' = "raised"
    /\ UNCHANGED <<today, full_text, tables, patient_id, age, birth_date_str, tix,
                   header_row_idx, od_col_idx, os_col_idx, rix, od_data, os_data,
                   table_result, result, mergeVars, batchVars, valueVars>>

\* lines 52-98: demographics, then the table path if the report has tables
ExtractDemographics ==
    /\ pc = "start"
    /\ pdf' = pdf
    /\ patient_id' = NormalizeId(CapturedId(full_text))
    /\ birth_date_str' = ExtractBirthDate(full_text, tables)
    /\ age' = _calculate_age(birth_date_str', today)
    /\ tix' = 1
    /\ pc' = IF tables /= <<>> THEN "table" ELSE "text"
    /\ UNCHANGED <<today, full_text, tables, header_row_idx, od_col_idx, os_col_idx, rix,
                   od_data, os_data, table_result, result, mergeVars, batchVars, valueVars, raised>>

\* the position after the current table is done: the next table, or the
\* end of the loop of line 147
AfterTable == IF tix < Len(tables) THEN "table" ELSE "finish"

\* the columns of a table whose header row is h, None without a header
ColumnsOf(t, h) == IF h = 0 THEN <<None, None>> ELSE ResolveColumns(t, h)

\* lines 161-281 for a table t of two rows or more: header row h, columns cols
StartTable(t, h, cols) ==
    /\ header_row_idx' = h
    /\ od_col_idx' = cols[1]
    /\ os_col_idx' = cols[2]
    /\ rix' = h + 1
    /\ pc' = IF h /= 0 /\ h + 1 <= LastScanRow(t, h) THEN "rows" ELSE "branch"
    /\ tix' = tix

\* lines 147-281: a table of fewer than two rows is skipped; otherwise the
\* header row and the columns are resolved
BeginTable ==
    /\ pc = "table"
    /\ pdf' = pdf
    /\ IF Len(tables[tix]) < 2
       THEN /\ pc' = AfterTable
            /\ tix' = IF tix < Len(tables) THEN tix + 1 ELSE tix
            /\ UNCHANGED <<header_row_idx, od_col_idx, os_col_idx, rix>>
       ELSE StartTable(tables[tix], HeaderRow(tables[tix]),
                       ColumnsOf(tables[tix], HeaderRow(tables[tix])))
    /\ UNCHANGED <<today, full_text, tables, patient_id, age, birth_date_str,
                   od_data, os_data, table_result, result, mergeVars, batchVars, valueVars, raised>>

\* the accumulators take the value acc
SetAccumulators(acc) == od_data' = acc[1] /\ os_data' = acc[2]

\* lines 283-412: one row after the header
ScanRow ==
    /\ pc = "rows"
    /\ pdf' = pdf
    /\ SetAccumulators(Apply(<<od_data, os_data>>,
                             RowWrites(tables[tix][rix], od_col_idx, os_col_idx)))
    /\ rix' = rix + 1
    /\ pc' = IF rix + 1 <= LastScanRow(tables[tix], header_row_idx) THEN "rows" ELSE "branch"
    /\ UNCHANGED <<today, full_text, tables, patient_id, age, birth_date_str, tix,
                   header_row_idx, od_col_idx, os_col_idx, table_result, result, mergeVars, batchVars, valueVars, raised>>

\* line 415: the fallback branch is entered when both accumulators are empty
Branch ==
    /\ pc = "branch"
    /\ pdf' = pdf
    /\ IF DOMAIN od_data = {} /\ DOMAIN os_data = {}
       THEN /\ pc' = "fallback"
            /\ rix' = 1
            /\ tix' = tix
       ELSE /\ pc' = AfterTable
            /\ rix' = rix
            /\ tix' = IF tix < Len(tables) THEN tix + 1 ELSE tix
    /\ UNCHANGED <<today, full_text, tables, patient_id, age, birth_date_str,
                   header_row_idx, od_col_idx, os_col_idx, od_data, os_data,
                   table_result, result, mergeVars, batchVars, valueVars, raised>>

\* lines 417-450: one row of the fallback branch
FallbackRow ==
    /\ pc = "fallback"
    /\ pdf' = pdf
    /\ SetAccumulators(Apply(<<od_data, os_data>>, FallbackRowWrites(tables[tix], rix - 1)))
    /\ IF rix < Len(tables[tix])
       THEN rix' = rix + 1 /\ pc' = "fallback" /\ tix' = tix
       ELSE rix' = rix /\ pc' = AfterTable
            /\ tix' = IF tix < Len(tables) THEN tix + 1 ELSE tix
    /\ UNCHANGED <<today, full_text, tables, patient_id, age, birth_date_str,
                   header_row_idx, od_col_idx, os_col_idx, table_result, result, mergeVars, batchVars, valueVars, raised>>

\* the table result counts only when both records carry an axial length
BothSidesMeasured(tr) == tr /= <<>> /\ "AL" \in DOMAIN tr[1] /\ "AL" \in DOMAIN tr[2]

\* line 99: the table result is returned
TablePathTaken(tr) == tr /= <<>> /\ DOMAIN tr[1] /= {} /\ DOMAIN tr[2] /= {}

\* lines 452-490 and 98-106: _extract_from_tables returns; parse returns its
\* records or goes on to the text fallback
FinishTables ==
    /\ pc = "finish"
    /\ table_result' = TablesReturn(od_data, os_data, patient_id, age)
    /\ IF TablePathTaken(table_result')
       THEN result' = table_result' /\ pc' = "done" /\ pdf' = ExitWith(pdf)
       ELSE result' = result /\ pc' = "text" /\ pdf' = pdf
    /\ UNCHANGED <<today, full_text, tables, patient_id, age, birth_date_str, tix,
                   header_row_idx, od_col_idx, os_col_idx, rix, od_data, os_data, mergeVars, batchVars, valueVars, raised>>

\* lines 108-139: both records from the page text
TextFallback ==
    /\ pc = "text"
    /\ result' = <<>> \o [i \in 1..2 |->
                     TextRecord(full_text, IF i = 1 THEN OD ELSE OS,
                                IF i = 1 THEN OD ELSE OS, patient_id, age)]
    /\ pc' = "done"
    /\ pdf' = ExitWith(pdf)
    /\ UNCHANGED <<today, full_text, tables, patient_id, age, birth_date_str, tix,
                   header_row_idx, od_col_idx, os_col_idx, rix, od_data, os_data,
                   table_result, mergeVars, batchVars, valueVars, raised>>

Next ==
    \/ OpenPdf
    \/ PageRaises
    \/ ExtractDemographics
    \/ BeginTable
    \/ ScanRow
    \/ Branch
    \/ FallbackRow
    \/ FinishTables
    \/ TextFallback

Spec == Init /\ [][Next]_vars

-----------------------------------------------------------------------------
(* Properties of parse *)

\* the eye marker of the i-th returned record
EyeOf(i) == IF i = 1 THEN OD ELSE OS

\* C1: parse returns exactly two records in the order [OD, OS], on the table
\* path and on the text-fallback path: the first record's eye side is "OD",
\* the second's is "OS"
C1_TwoRecordsOdThenOs ==
    pc = "done" =>
        /\ Len(result) = 2
        /\ \A i \in 1..2 : "Oeil" \in DOMAIN result[i] /\ result[i]["Oeil"] = EyeOf(i)

\* a call that returned the records of the table path, the left eye's
\* accumulator holding an axial length
C1_TablePathReturned ==
    pc = "done" /\ table_result /= <<>> /\ result = table_result /\ "AL" \in DOMAIN os_data

\* C2: every returned record, on either path, carries all eleven keys
C2_AllKeysPresent ==
    pc = "done" => \A i \in 1..Len(result) : Fields \subseteq DOMAIN result[i]

\* the case of C3: the header is the first row with OD in column a and OS in
\* column b, and the rows below carry nothing but 'AL: 23.50mm' in column a
\* and 'AL: 23.80mm' in column b, each of them at least once
InlineAlCase(t, a, b) ==
    /\ Len(t) >= 2 /\ a /= b /\ a < Len(t[1]) /\ b < Len(t[1])
    /\ t[1] = Row2(Len(t[1]), a, cOD, b, cOS)
    /\ \A r \in 2..Len(t) :
          \E x \in {<<>>, cALx}, y \in {<<>>, cALy} : t[r] = Row2(Len(t[1]), a, x, b, y)
    /\ \E r \in 2..Len(t) : t[r][a + 1] = cALx
    /\ \E r \in 2..Len(t) : t[r][b + 1] = cALy

\* C3: with OD in column a and OS in column b of the header and the inline
\* values 'AL: 23.50mm' in column a and 'AL: 23.80mm' in column b of the rows
\* below, in any row order, the OD record has AL 23.50 and the OS record has
\* AL 23.80
C3_ColumnDecidesEye ==
    \A a \in 0..5, b \in 0..5 :
        (pc = "done" /\ Len(tables) = 1 /\ InlineAlCase(tables[1], a, b)) =>
            /\ Len(result) = 2
            /\ "AL" \in DOMAIN result[1] /\ result[1]["AL"] = <<"2","3",".","5","0">>
            /\ "AL" \in DOMAIN result[2] /\ result[2]["AL"] = <<"2","3",".","8","0">>

\* the field values of accumulator d are kept by the step
Kept(d, e) == \A k \in DOMAIN d : k \in DOMAIN e /\ e[k] = d[k]

\* C4: first writer wins: in every step of the table extraction a field that
\* an accumulator holds keeps its value
C4_FirstWriterWins == [][Kept(od_data, od_data') /\ Kept(os_data, os_data')]_vars

\* the records the text fallback builds for the call
TextRecords ==
    <<TextRecord(full_text, OD, OD, patient_id, age),
      TextRecord(full_text, OS, OS, patient_id, age)>>

\* C5: the table attempt succeeds if and only if both accumulators are not
\* empty after all tables; otherwise both records are built by the text
\* fallback
C5_SuccessIffBothSides ==
    pc = "done" =>
        IF DOMAIN od_data /= {} /\ DOMAIN os_data /= {}
        THEN result = table_result /\ table_result /= <<>>
        ELSE result = TextRecords

\* the records hold, in the measurement fields, what the page text gives
MeasuredFromText(recs, t) ==
    \A i \in 1..2 : \A k \in MeasurementFields :
        k \in DOMAIN recs[i] /\ recs[i][k] = _extract_eye_data(t, EyeOf(i))[k]

\* C6 (as stated): the text fallback runs only when the report has no tables
\* or both accumulators are empty after all tables, and when it ran no value
\* of the returned records comes from a table: the records are those of the
\* same page text without tables
C6_NoValueFromTables ==
    /\ pc = "text" => DOMAIN od_data = {} /\ DOMAIN os_data = {}
    /\ (pc = "done" /\ table_result = <<>>) =>
           result = <<TextRecord(full_text, OD, OD, NormalizeId(CapturedId(full_text)),
                                 _calculate_age(ExtractBirthDate(full_text, <<>>), today)),
                      TextRecord(full_text, OS, OS, NormalizeId(CapturedId(full_text)),
                                 _calculate_age(ExtractBirthDate(full_text, <<>>), today))>>

\* C6 (amended): the text fallback runs only when the report has no tables or
\* all tables were processed and both accumulators are empty; it never runs
\* after the table extraction has written a field, and when it ran the
\* measurement fields of both records are read from the page text (the age may
\* still derive from a birth-date row of a table)
C6_TextFallbackOnlyWhenTablesGaveNothing ==
    /\ pc = "text" =>
           /\ tables = <<>> \/ tix = Len(tables)
           /\ DOMAIN od_data = {} /\ DOMAIN os_data = {}
    /\ (pc = "done" /\ table_result = <<>>) =>
           /\ DOMAIN od_data = {} /\ DOMAIN os_data = {}
           /\ MeasuredFromText(result, full_text)

\* the text fallback ran after tables that gave no measurement and read an
\* axial length from the page text
C6_FallbackAfterTables ==
    /\ pc = "done" /\ tables /= <<>> /\ table_result = <<>>
    /\ "AL" \in DOMAIN result[1] /\ result[1]["AL"] /= <<>>

\* the identifier the reduction gives for a capture
ReducedId(captured) ==
    IF \E i \in DOMAIN captured : captured[i] \in Digits
    THEN SelectSeq(captured, LAMBDA c : c \in Digits)
    ELSE Strip(captured)

\* C7: the patient identifier of both records is the captured identifier
\* reduced to its digits when it has a digit, else the capture trimmed;
\* reducing it again changes nothing, and both records carry the same
\* identifier and the same age
C7_IdentifierReducedToDigits ==
    pc = "done" =>
        /\ \A i \in 1..2 : {"ID Patient", "Age"} \subseteq DOMAIN result[i]
        /\ result[1]["ID Patient"] = ReducedId(CapturedId(full_text))
        /\ ReducedId(result[1]["ID Patient"]) = result[1]["ID Patient"]
        /\ result[2]["ID Patient"] = result[1]["ID Patient"]
        /\ result[2]["Age"] = result[1]["Age"]

\* a report whose identifier is written '251-093' was parsed: both records
\* carry '251093'
C7_DashedIdentifierParsed ==
    /\ pc = "done" /\ full_text = txFull
    /\ result[1]["ID Patient"] = <<"2","5","1","0","9","3">>
    /\ result[2]["ID Patient"] = <<"2","5","1","0","9","3">>

\* C14: no parse call ends with the document handle open: it is closed when
\* parse returns from the table path or from the text fallback and when an
\* exception leaves the extraction, and it is open only while the call runs
C14_HandleReleasedOnEveryExit ==
    /\ pc \in {"done", "raised"} => pdf /= "open"
    /\ pc = "done" => pdf = "closed"
    /\ pdf = "open" =>
          pc \in {"start", "table", "rows", "branch", "fallback", "finish", "text"}

\* an exception of the page extraction left the call and the handle is closed
C14_ClosedAfterException == pc = "raised" /\ raised = "page" /\ pdf = "closed"

\* the non-empty cells of the row all lie in column col (0-based)
OnlyInColumn(row, col) == \A c \in 1..Len(row) : row[c] /= <<>> => c - 1 = col

\* C17: in the scan of a row after the header every pattern family routes a
\* cell by its column: a row whose only cells lie in the resolved OD column
\* writes nothing into the OS accumulator, and a row whose only cells lie in
\* the resolved OS column writes nothing into the OD accumulator
C17_AssignedColumnDecidesEye ==
    [][pc = "rows" =>
          /\ OnlyInColumn(tables[tix][rix], od_col_idx) => os_data' = os_data
          /\ OnlyInColumn(tables[tix][rix], os_col_idx) => od_data' = od_data]_vars

\* a table with a detected header has its columns assigned
ColumnsAssigned == pc \in {"rows", "branch"} /\ header_row_idx /= 0

\* C18: when the header scan leaves a column unresolved, the fallback gives
\* OD = column 0, and OS = column 4 for a table of four columns or more,
\* else the last column (column 1 for two columns); the OS column given this
\* way lies inside the table
C18_FallbackColumnsInsideTable ==
    ColumnsAssigned =>
        /\ HeaderOdCol(tables[tix][header_row_idx]) = None => od_col_idx = 0
        /\ HeaderOsCol(tables[tix][header_row_idx]) = None =>
               /\ os_col_idx = HeuristicCols(tables[tix])[2]
               /\ os_col_idx < MaxCols(tables[tix])

\* the cell holds both eye markers
CombinedCell(cell) == Contains(Upper(cell), OD) /\ Contains(Upper(cell), OS)

\* the cell carries an "AL:" value, or is a multi-line cell with AL or CCT
ValueCell(cell) ==
    \/ Contains(Upper(cell), <<"A","L",":">>)
    \/ /\ Contains(cell, <<"\n">>)
       /\ Contains(Upper(cell), <<"A","L">>) \/ Contains(Upper(cell), <<"C","C","T">>)

\* the columns (0-based) with a value cell in the rows h+1 .. h+10 of table t
ValueColumns(t, h) ==
    {c \in 0..(MaxCols(t) - 1) :
        \E r \in (h + 1)..Min({h + 10, Len(t)}) : c < Len(t[r]) /\ ValueCell(t[r][c + 1])}

\* the header row h of table t has its markers in combined cells only
CombinedHeader(t, h) ==
    /\ \E c \in 1..Len(t[h]) : CombinedCell(t[h][c])
    /\ HeaderOdCol(t[h]) = None /\ HeaderOsCol(t[h]) = None

\* C19: for a header whose eye markers sit in one combined cell, the rows
\* below are searched for the value columns; with two of them the lower one
\* is the OD column and the other the OS column
C19_CombinedHeaderSearched ==
    (/\ ColumnsAssigned
     /\ CombinedHeader(tables[tix], header_row_idx)
     /\ Cardinality(ValueColumns(tables[tix], header_row_idx)) = 2) =>
        /\ od_col_idx = Min(ValueColumns(tables[tix], header_row_idx))
        /\ os_col_idx = Max(ValueColumns(tables[tix], header_row_idx))

\* the cells (1-based) of the row that contain OD and not OS
OdOnlyCells(row) ==
    {c \in 1..Len(row) : Contains(Upper(row[c]), OD) /\ ~Contains(Upper(row[c]), OS)}

\* the cells (1-based) of the row that contain OS
OsMarkedCells(row) == {c \in 1..Len(row) : Contains(Upper(row[c]), OS)}

\* C20: the header is the first row whose text contains OD or OS; the OD
\* column is the first header cell with OD and without OS, the OS column the
\* first header cell with OS; the assignment does not change while the rows
\* of the table are read
C20_HeaderAssignsColumnsOnce ==
    /\ [](ColumnsAssigned =>
             /\ header_row_idx = Min(HeaderRows(tables[tix]))
             /\ OdOnlyCells(tables[tix][header_row_idx]) /= {} =>
                    od_col_idx = Min(OdOnlyCells(tables[tix][header_row_idx])) - 1
             /\ OsMarkedCells(tables[tix][header_row_idx]) /= {} =>
                    os_col_idx = Min(OsMarkedCells(tables[tix][header_row_idx])) - 1)
    /\ [][pc = "rows" => od_col_idx' = od_col_idx /\ os_col_idx' = os_col_idx]_vars

\* the accumulators hold a value for every field the writes wr name
AllExtracted(wr) ==
    \A i \in 1..Len(wr) :
        wr[i].key \in DOMAIN (IF wr[i].eye = "OD" THEN od_data ELSE os_data)

\* C21: the 20 rows that follow the header are read (fewer when the table
\* ends sooner): after the scan every labelled value of the rows header+1 ..
\* header+20 is in an accumulator, and no row beyond header+20 is read
C21_TwentyRowsRead ==
    /\ []((ColumnsAssigned /\ pc = "branch") =>
             \A r \in (header_row_idx + 1)..Min({header_row_idx + 20, Len(tables[tix])}) :
                 AllExtracted(RowWrites(tables[tix][r], od_col_idx, os_col_idx)))
    /\ [][pc = "rows" => rix <= header_row_idx + 20]_vars

\* C22: the positional pattern (left half of the row to OD, right half to
\* OS) is applied only to a table without a detected header row: for a table
\* in which a header row was found it writes nothing into the accumulators
C22_PositionalOnlyWithoutHeader ==
    [][(pc = "fallback" /\ header_row_idx /= 0) =>
          (od_data' = od_data /\ os_data' = os_data)]_vars

\* the first of two results that is not ""
Either(a, b) == IF a /= <<>> THEN a ELSE b

\* '@' followed by a number, the degree mark optional: in the cell, else in
\* the next cell
AxisCellThenNext(cell, next) == Either(AxisSearch(cell, FALSE), AxisSearch(next, FALSE))

\* '@' followed by a number and a degree mark in the cell, else in the next
\* cell; failing both, '@' followed by a number in the cell, else in the next
AxisMarkedThenPlain(cell, next) ==
    Either(Either(AxisSearch(cell, TRUE), AxisSearch(next, TRUE)),
           Either(AxisSearch(cell, FALSE), AxisSearch(next, FALSE)))

\* the accumulator keeps its axis; an axis it gains is axis(cell, next cell)
\* of a cell of the row that contains K1
AxisStep(acc, acc2, row, axis(_, _)) ==
    /\ "Axe" \in DOMAIN acc => ("Axe" \in DOMAIN acc2 /\ acc2["Axe"] = acc["Axe"])
    /\ ("Axe" \notin DOMAIN acc /\ "Axe" \in DOMAIN acc2) =>
           \E c \in 1..Len(row) :
               /\ Contains(Upper(row[c]), <<"K","1">>)
               /\ acc2["Axe"] = axis(row[c], NextCell(row, c - 1))

\* some cell with K1 below a header has an '@' number in it or next to it
HasAxisCell ==
    \E t \in 1..Len(tables) : \E r \in 1..Len(tables[t]) : \E c \in 1..Len(tables[t][r]) :
        /\ Contains(Upper(tables[t][r][c]), <<"K","1">>)
        /\ AxisCellThenNext(tables[t][r][c], NextCell(tables[t][r], c - 1)) /= <<>>

\* the records of the table path carry an empty axis when no cell gave one
NoAxisIsEmpty ==
    (pc = "done" /\ table_result /= <<>> /\ result = table_result /\ ~HasAxisCell) =>
        \A i \in 1..2 : "Axe" \in DOMAIN result[i] /\ result[i]["Axe"] = <<>>

\* C24: in table extraction the axis of an eye comes only from a cell with
\* K1, as the number after '@' found first in that cell and then in the next
\* cell; it is written once per eye and never replaced; without any '@'
\* pattern in such a cell the record's axis is ""
C24_AxisCellThenNext ==
    /\ [][(pc \in {"rows", "fallback"}) =>
             (/\ AxisStep(od_data, od_data', tables[tix][rix], AxisCellThenNext)
              /\ AxisStep(os_data, os_data', tables[tix][rix], AxisCellThenNext))]_vars
    /\ []NoAxisIsEmpty

\* C24, as the code orders the searches: the number after '@' that carries
\* a degree mark, in the cell with K1 and then in the next cell, is preferred
\* to a number after '@' without degree mark, in the cell and then in the
\* next cell; the axis is written once per eye and never replaced, and is ""
\* in the record when no such cell has an '@' pattern
C24_AxisDegreeMarkedFirst ==
    /\ [][(pc \in {"rows", "fallback"}) =>
             (/\ AxisStep(od_data, od_data', tables[tix][rix], AxisMarkedThenPlain)
              /\ AxisStep(os_data, os_data', tables[tix][rix], AxisMarkedThenPlain))]_vars
    /\ []NoAxisIsEmpty

\* the cell with K1 has '@ 90' without degree mark, the next cell '@ 105'
\* with one, and the right eye's axis is 105
C24_NextCellPreferred ==
    /\ pc = "done" /\ Len(tables) = 1 /\ Len(tables[1]) = 2
    /\ tables[1][2][1] = cK1Plain /\ tables[1][2][2] = cAxisDeg
    /\ "Axe" \in DOMAIN od_data /\ od_data["Axe"] = <<"1","0","5">>

\* C27: in every table with a detected header the column of the right eye and
\* the column of the left eye used for the rows are different
C27_EyeColumnsDiffer == ColumnsAssigned => od_col_idx /= os_col_idx

\* the record holds a value in some measurement field
HasMeasurement(rec) == \E k \in MeasurementFields \cap DOMAIN rec : rec[k] /= <<>>

\* C26: when parse returns the table-path records without running the text
\* fallback, some measurement field of one of the two records holds a value
\* that is not empty
C26_TablePathHoldsAValue ==
    (pc = "done" /\ table_result /= <<>> /\ result = table_result) =>
        \E i \in 1..2 : HasMeasurement(result[i])

-----------------------------------------------------------------------------
(* _calculate_age on its own: birth-date strings and current dates *)

\* a number below 100 in two digits
TwoDigits(n) == <<DigitChars[(n \div 10) + 1], DigitChars[(n % 10) + 1]>>

\* day or month as the report writes it, with or without the leading zero
DayMonthText(n, padded) == IF padded THEN TwoDigits(n) ELSE NatStr(n)

\* the date (d, m, y) written in the format fmt
DateText(d, m, y, fmt, padded) ==
    IF fmt.order = "Ymd"
    THEN NatStr(y) \o <<fmt.sep>> \o DayMonthText(m, padded) \o <<fmt.sep>> \o DayMonthText(d, padded)
    ELSE DayMonthText(d, padded) \o <<fmt.sep>> \o DayMonthText(m, padded) \o <<fmt.sep>>
         \o (IF fmt.order = "dmy" THEN TwoDigits(y % 100) ELSE NatStr(y))

BirthDays == {1, 17, 29, 31}

BirthMonths == {1, 2, 8, 12}

BirthYears == {1995, 2010, 2024, 2025}

\* strings no format parses: words, a month 13, a year of three digits
BadDates == {<<"a","b","c">>, <<"1","7",".","1","3",".","2","0","1","0">>,
             <<"1","7",".","0","8",".","2","0","1">>, <<"1","7"," ","0","8"," ","2","0","1","0">>}

\* birth years on both sides of 1950 and of the pivot of %y
CenturyYears == {1940, 1950, 1951, 1960, 1968, 1969}

BirthStrings ==
    {DateText(d, m, y, date_formats[f], padded) :
        d \in BirthDays, m \in BirthMonths, y \in BirthYears \cup CenturyYears,
        f \in DOMAIN date_formats, padded \in BOOLEAN} \cup BadDates

AgeDays == {[y |-> 2024, m |-> 1, d |-> 1], [y |-> 2024, m |-> 8, d |-> 17],
            [y |-> 2025, m |-> 2, d |-> 28]}

InitAge ==
    /\ pc = "age"
    /\ today \in AgeDays
    /\ birth_date_str \in BirthStrings
    /\ age = <<>>
    /\ full_text = <<>> /\ tables = <<>> /\ patient_id = <<>>
    /\ tix = 0 /\ header_row_idx = 0 /\ od_col_idx = None /\ os_col_idx = None /\ rix = 0
    /\ od_data = EmptyDict /\ os_data = EmptyDict
    /\ table_result = <<>> /\ result = <<>>
    /\ pdf = "none" /\ raised = ""
    /\ IdleMerge
    /\ IdleBatch
    /\ IdleValue

\* line 92: age = self._calculate_age(birth_date_str)
CalculateAge ==
    /\ pc = "age"
    /\ pdf' = pdf
    /\ age' = _calculate_age(birth_date_str, today)
    /\ pc' = "age_done"
    /\ UNCHANGED <<today, full_text, tables, patient_id, birth_date_str, tix,
                   header_row_idx, od_col_idx, os_col_idx, rix, od_data, os_data,
                   table_result, result, mergeVars, batchVars, valueVars, raised>>

NextAge == CalculateAge

SpecAge == InitAge /\ [][NextAge]_vars

\* the age of the claim for a birth date (yb, mb, db) on the day now
ExpectedAge(now, yb, mb, db) ==
    IntStr(now.y - yb - (IF now.m < mb \/ (now.m = mb /\ now.d < db) THEN 1 ELSE 0))

\* C8: for every birth date (yb, mb, db) written in a format of the list and
\* every current date, the age is the decimal string of yt - yb, less one
\* exactly when (mt, dt) precedes (mb, db); it is never clamped: birth
\* 17.08.2010 on 2024-01-01 gives "13", birth 17.08.2024 gives "-1"
C8_AgeIsYearDifferenceUnclamped ==
    pc = "age_done" =>
        /\ \A db \in BirthDays, mb \in BirthMonths, yb \in BirthYears :
              (/\ db <= DaysInMonth(yb, mb)
               /\ \E f \in DOMAIN date_formats, padded \in BOOLEAN :
                     birth_date_str = DateText(db, mb, yb, date_formats[f], padded))
              => age = ExpectedAge(today, yb, mb, db)
        /\ (today = [y |-> 2024, m |-> 1, d |-> 1] /\ birth_date_str = cBirth)
              => age = <<"1","3">>
        /\ (/\ today = [y |-> 2024, m |-> 1, d |-> 1]
            /\ birth_date_str = <<"1","7",".","0","8",".","2","0","2","4">>)
              => age = <<"-","1">>

\* the age of a birth date after the current date was computed: it is negative
C8_FutureBirthDate ==
    /\ pc = "age_done" /\ today = [y |-> 2024, m |-> 1, d |-> 1]
    /\ birth_date_str = <<"1","7",".","0","8",".","2","0","2","4">>
    /\ age = <<"-","1">>

\* the formats with a two-digit year, and those with a four-digit year
ShortYearFormats == {f \in DOMAIN date_formats : date_formats[f].order = "dmy"}

LongYearFormats == DOMAIN date_formats \ ShortYearFormats

\* the year of a two-digit year yy as stated, which is the rule the comment
\* of line 725 gives: the 1900s for yy above 50, else the 2000s
StatedYear(yy) == IF yy > 50 THEN 1900 + yy ELSE 2000 + yy

\* the age is that of the birth year year(yy) for every date written with a
\* two-digit year yy, and that of the year as written for every date
\* written with four digits
AgeByCentury(year(_)) ==
    \A db \in BirthDays, mb \in BirthMonths, yb \in BirthYears \cup CenturyYears,
       padded \in BOOLEAN :
        /\ \A f \in ShortYearFormats :
              (/\ db <= DaysInMonth(year(yb % 100), mb)
               /\ birth_date_str = DateText(db, mb, yb, date_formats[f], padded))
              => age = ExpectedAge(today, year(yb % 100), mb, db)
        /\ \A f \in LongYearFormats :
              (/\ db <= DaysInMonth(yb, mb)
               /\ birth_date_str = DateText(db, mb, yb, date_formats[f], padded))
              => age = ExpectedAge(today, yb, mb, db)

\* C25: a two-digit year is taken in the 1900s when it is above 50 and in
\* the 2000s otherwise, so that 17.08.60 is a birth in 1960; a date with a
\* four-digit year is never adjusted
C25_CenturyByParsedYear == pc = "age_done" => AgeByCentury(StatedYear)

-----------------------------------------------------------------------------
(* merge_excel_data: the sheet as rows of typed cells *)

(***************************************************************************)
(* ws is the sheet of the workbook file between two calls: a sequence of   *)
(* rows, each a sequence of cells.  A cell is its value as openpyxl loads  *)
(* it: nothing, an int n (from ten digits on the sign n and the digits   *)
(* s), a float or a str s, a character sequence.  Saving writes no value   *)
(* for "" and writes a number, int or float, with 16 digits, which reads   *)
(* as an int when the digits show no decimals, so the sheet holds neither  *)
(* "" nor a float without decimals below 1e16.  Cells                      *)
(* that exist without a value (styles copied from the sample row) are not  *)
(* kept: a row beyond the last one reads as empty.  The header texts use   *)
(* the character names "A_circ" (U+00C2), "OE_lig" (U+0152) and "e_grave"  *)
(* (U+00E8).                                                               *)
(***************************************************************************)

NoneCell == [kind |-> "none", n |-> 0, e |-> 0, s |-> <<>>]

IntCell(n) == [kind |-> "int", n |-> n, e |-> 0, s |-> <<>>]

\* a str value as the saved file keeps it
StrCell(s) == IF s = <<>> THEN NoneCell ELSE [kind |-> "str", n |-> 0, e |-> 0, s |-> s]

\* a value the writer (OverflowError, wb.save raises) or the reader
\* (ValueError, load_workbook raises) of the file refuses
Refused(exc) == [kind |-> exc, n |-> 0, e |-> 0, s |-> <<>>]

\* k zeros
Zeros(k) == [i \in 1..k |-> "0"]

\* int() of the digit characters d under the sign
IntOfDigits(sign, d) ==
    LET t == SubSeq(d, RunEnd(d, 1, {"0"}), Len(d))
    IN  IF Len(t) <= 9 THEN IntCell(sign * NatOf(t))
        ELSE [kind |-> "int", n |-> sign, e |-> 0, s |-> t]

\* the float m / 10^e (e of either sign)
FloatCell(m, e) == FloatOfDigits(IF m < 0 THEN -1 ELSE 1, NatStr(Abs(m)), -e)

\* the first 16 digits of N, rounded to the nearest and to the even one of two
SixteenDigits(N) ==
    IF Len(N) <= 16 THEN N
    ELSE Rounded(SubSeq(N, 1, 16), SubSeq(N, 17, Len(N)))

\* the text of the digits t times 10^q, t without zeros at its end, as the
\* reader takes it: an int when it shows neither point nor exponent, which
\* %g writes from 1e16 on
ReadBack(sign, t, q) ==
    IF q >= 0 /\ Len(t) - 1 + q < 16 THEN IntOfDigits(sign, DigitText(t) \o Zeros(q))
    ELSE NearestFloat(sign, t, q)

ReadNumber(sign, r, q) ==
    ReadBack(sign, NoTrailingZeros(r), q + Len(r) - Len(NoTrailingZeros(r)))

\* %.16g of the double whose digits are E with f decimals, read back
SavedDigits(sign, E, f) ==
    ReadNumber(sign, SixteenDigits(E), IF Len(E) <= 16 THEN -f ELSE Len(E) - 16 - f)

SavedBinary(sign, b) == SavedDigits(sign, Scaled(b.n, b.k), IF b.k < 0 THEN -b.k ELSE 0)

\* the digits N are few and begin below 45: the double nearest to them is
\* within 2^-53 of them, in proportion, and its 16 digits read as it again
ShortAndLow(N, x) ==
    /\ Len(N) <= 15 /\ x >= -300 /\ x <= 300
    /\ (N[1] < 4 \/ (N[1] = 4 /\ (Len(N) = 1 \/ N[2] < 5)))

\* a float as the saved file gives it back: the writer formats it with
\* %.16g and the reader takes the text as a float or an int.  An integer
\* below 1e16 of at most 15 digits is a double and is written as it is.
\* inf and nan are written as 'inf' and 'nan', which show neither point
\* nor exponent: the reader takes them for an int and raises ValueError
SavedFloat(c) ==
    LET N == DigitValues(c.s)
        q == c.e - Len(c.s) + 1
    IN  IF ~Finite(c) THEN Refused("ValueError")
        ELSE IF c.s = <<"0">> THEN IntCell(0)
        ELSE IF ShortAndLow(N, c.e) \/ (Len(N) <= 15 /\ q >= 0 /\ c.e < 16)
             THEN ReadBack(c.n, N, q)
        ELSE IF q >= 0 THEN SavedBinary(c.n, Binary(N \o ZeroDigits(q), 0))
        ELSE SavedBinary(c.n, Binary(N, -q))

\* an int as the saved file gives it back: the writer formats it with
\* %.16g too, which takes it as a double first and raises OverflowError for
\* an int beyond the largest double; an int of at most 15 digits is a
\* double and is written as it is
SavedInt(c) ==
    IF Len(c.s) <= 15 THEN c
    ELSE IF Len(c.s) > 309 THEN Refused("OverflowError")
    ELSE LET b == Binary(DigitValues(c.s), 0)
         IN  IF b.k > 971 THEN Refused("OverflowError") ELSE SavedBinary(c.n, b)

\* a cell value as the saved file gives it back
Saved(c) ==
    IF c.kind = "float" THEN SavedFloat(c)
    ELSE IF c.kind = "int" THEN SavedInt(c)
    ELSE c

\* the text of a record key as a header cell spells it
FieldText ==
    "ID Patient" :> <<"I","D"," ","P","a","t","i","e","n","t">> @@
    "Age" :> <<"A_circ","g","e">> @@
    "Oeil" :> <<"OE_lig","i","l">> @@
    "AL" :> <<"A","L">> @@
    "PACHY (mm)" :> <<"P","A","C","H","Y"," ","(","m","m",")">> @@
    "ACD epit" :> <<"A","C","D"," ","e","p","i","t">> @@
    "LT" :> <<"L","T">> @@
    "K1" :> <<"K","1">> @@
    "K2" :> <<"K","2">> @@
    "WTW (mm)" :> <<"W","T","W"," ","(","m","m",")">> @@
    "Axe" :> <<"A","x","e">> @@
    "PUISSANCE IOL" :> <<"P","U","I","S","S","A","N","C","E"," ","I","O","L">> @@
    "TORIQUE PROG EDOF" :> <<"T","O","R","I","Q","U","E"," ","P","R","O","G"," ","E","D","O","F">> @@
    "Modele implante" :> <<"M","o","d","e_grave","l","e"," ","i","m","p","l","a","n","t","e_acute">>

\* the exponent of repr(): a sign and at least two digits
ExponentText(x) ==
    <<"e", IF x < 0 THEN "-" ELSE "+">>
    \o (IF Abs(x) < 10 THEN <<"0">> ELSE <<>>) \o NatStr(Abs(x))

\* repr() with an exponent: the first digit, a point before the others
ScientificStr(ds, x) ==
    <<Head(ds)>> \o (IF Len(ds) > 1 THEN <<".">> \o Tail(ds) ELSE <<>>) \o ExponentText(x)

\* repr() without an exponent of the digits ds with e of them after the point
FixedStr(ds, e) ==
    IF e <= 0 THEN ds \o Zeros(-e) \o <<".", "0">>
    ELSE IF Len(ds) > e
         THEN SubSeq(ds, 1, Len(ds) - e) \o <<".">> \o SubSeq(ds, Len(ds) - e + 1, Len(ds))
         ELSE <<"0", ".">> \o Zeros(e - Len(ds)) \o ds

\* repr() of the digits ds with e of them after the point: an exponent when
\* the power of ten x of the first digit is below -4 or at least 16
ReprOf(ds, e, x) == IF x < -4 \/ x >= 16 THEN ScientificStr(ds, x) ELSE FixedStr(ds, e)

\* str() of a float
FloatStr(c) ==
    (IF c.n < 0 /\ c.s /= <<"n","a","n">> THEN <<"-">> ELSE <<>>)
    \o (IF Finite(c) THEN ReprOf(c.s, Len(c.s) - 1 - c.e, c.e) ELSE c.s)

\* str(cell.value)
PyStr(c) ==
    CASE c.kind = "str" -> c.s
      [] c.kind = "int" -> IF c.s = <<>> THEN IntStr(c.n)
                           ELSE (IF c.n < 0 THEN <<"-">> ELSE <<>>) \o c.s
      [] c.kind = "float" -> FloatStr(c)
      [] OTHER -> <<"N","o","n","e">>

\* bool(cell.value)
Truthy(c) ==
    CASE c.kind = "str" -> c.s /= <<>>
      [] c.kind = "int" -> c.n /= 0
      [] c.kind = "float" -> c.s /= <<"0">>
      [] OTHER -> FALSE

\* str(cell.value or "")
CellText(c) == IF Truthy(c) THEN PyStr(c) ELSE <<>>

\* ws.cell(row=r, column=c).value
CellAt(sheet, r, c) ==
    IF r >= 1 /\ r <= Len(sheet) /\ c >= 1 /\ c <= Len(sheet[r]) THEN sheet[r][c] ELSE NoneCell

\* the cells of row r
RowOf(sheet, r) == IF r >= 1 /\ r <= Len(sheet) THEN sheet[r] ELSE <<>>

\* lines 65-70 and 77-82: header text to column, the last column of a text wins
HeaderMap(row) ==
    [name \in {Strip(CellText(row[c])) : c \in DOMAIN row} \ {<<>>} |->
        Max({c \in DOMAIN row : Strip(CellText(row[c])) = name})]

\* lines 55 and 73-76: row 2, or row 1 when row 2 has no header
header_row(sheet) == IF DOMAIN HeaderMap(RowOf(sheet, 2)) /= {} THEN 2 ELSE 1

column_map(sheet) == HeaderMap(RowOf(sheet, header_row(sheet)))

\* line 98: ws.max_row once the header scan has read row 2
max_row(sheet) == Max({Len(sheet), 2})

\* lines 93-94: column_map.get(field), 0 for None
ColumnOf(cm, field) == IF FieldText[field] \in DOMAIN cm THEN cm[FieldText[field]] ELSE 0

\* lines 100-105: a mapped column of row r holds a value
HasData(sheet, r, cm) ==
    \E name \in DOMAIN cm :
        /\ CellAt(sheet, r, cm[name]).kind /= "none"
        /\ Strip(PyStr(CellAt(sheet, r, cm[name]))) /= <<>>

\* lines 97-107
last_data_row(sheet, h, cm) ==
    Max({h} \cup {r \in (h + 1)..max_row(sheet) : HasData(sheet, r, cm)})

\* lines 113-116 and 136-137: (patient id, eye) of row r
KeyAt(sheet, r, idc, eyec) ==
    <<Strip(CellText(CellAt(sheet, r, idc))), Strip(CellText(CellAt(sheet, r, eyec)))>>

\* lines 112-120: the rows after the header whose patient id and eye are both empty
FreeRows(sheet, h, idc, eyec) ==
    {r \in (h + 1)..max_row(sheet) : KeyAt(sheet, r, idc, eyec) = <<<<>>, <<>> >>}

\* lines 123 and 126: the row after the last data row
AfterLast(h, last) == IF last > h THEN last + 1 ELSE h + 1

\* lines 111-126
FirstFree(free, h, last, idc, eyec) ==
    IF idc /= 0 /\ eyec /= 0 /\ free /= {} THEN Min(free) ELSE AfterLast(h, last)

\* lines 89-126
first_available_row(sheet, h, cm, idc, eyec) ==
    FirstFree(FreeRows(sheet, h, idc, eyec), h, last_data_row(sheet, h, cm), idc, eyec)

\* a filter that lets every key through
AnyKey(k) == TRUE

\* line 138: a key with a patient id and an eye
FullKey(k) == k[1] /= <<>> /\ k[2] /= <<>>

\* lines 131-139
existing_keys(sheet, h, idc, eyec) ==
    IF idc /= 0 /\ eyec /= 0
    THEN {k \in {KeyAt(sheet, r, idc, eyec) : r \in (h + 1)..max_row(sheet)} : FullKey(k)}
    ELSE {}

\* line 145: row.get(k, "")
Get(d, k) == IF k \in DOMAIN d THEN d[k] ELSE <<>>

\* lines 145-146: (patient id, eye) of a record
RowKey(row) == <<Strip(Get(row, "ID Patient")), Strip(Get(row, "Oeil"))>>

RECURSIVE FilterFrom(_, _, _)
\* lines 144-150 from record i on, keys the keys seen so far
FilterFrom(rows, i, keys) ==
    IF i > Len(rows) THEN <<>>
    ELSE IF FullKey(RowKey(rows[i])) /\ RowKey(rows[i]) \notin keys
         THEN <<rows[i]>> \o FilterFrom(rows, i + 1, keys \cup {RowKey(rows[i])})
         ELSE FilterFrom(rows, i + 1, keys)

\* lines 142-150
filtered_rows(rows, keys) == FilterFrom(rows, 1, keys)

-----------------------------------------------------------------------------
(* merge_excel_data: conversion and writing *)

\* lines 255-256: the fields written as numbers when their text is one
NumericFields == {"AL", "ACD epit", "LT", "PACHY (mm)", "WTW (mm)", "PUISSANCE IOL",
                  "TORIQUE PROG EDOF", "K1", "K2", "Age"}

\* the strings int() accepts: whitespace at the two ends, an optional sign,
\* digits with single underscores between them, no more than 4300 digits
IntOk(s) ==
    /\ DigitPart(Unsigned(NumberStrip(s)))
    /\ Len(WithoutUnderscores(Unsigned(NumberStrip(s)))) <= 4300

\* int() of a string it accepts, t the string without its whitespace
IntOf(t) == IntOfDigits(Signed(t, 1), WithoutUnderscores(Unsigned(t)))

\* lines 263-266: int(num_str), kept as a string on ValueError
IntValue(value, num_str) ==
    IF IntOk(num_str) THEN IntOf(NumberStrip(num_str)) ELSE StrCell(value)

\* lines 261-266: float(num_str), kept as a string on ValueError
FloatValue(value, num_str) ==
    IF FloatOk(num_str) THEN PyFloat(num_str) ELSE StrCell(value)

\* lines 259-266
NumberValue(value, num_str) ==
    IF \E k \in 1..Len(num_str) : num_str[k] = "."
    THEN FloatValue(value, num_str)
    ELSE IntValue(value, num_str)

\* lines 234-241 and 247-251: the digits as an int, else the stripped text;
\* beyond 4300 digits int() raises ValueError, and the identifier is then its
\* digits and the implant the stripped text
DigitsValue(field, value, digits_only) ==
    IF digits_only = <<>> THEN StrCell(Strip(value))
    ELSE IF Len(digits_only) <= 4300 THEN IntOfDigits(1, digits_only)
    ELSE StrCell(IF field = "ID Patient" THEN digits_only ELSE Strip(value))

\* lines 227-266: converted_value for the field
ConvertedValue(field, value) ==
    IF value = <<>> THEN NoneCell
    ELSE IF field \in {"ID Patient", "Modele implante"}
         THEN DigitsValue(field, value, DigitsOnly(value))
    ELSE IF field \in NumericFields
         THEN NumberValue(value, Strip(Replace(value, <<",">>, <<".">>)))
    ELSE StrCell(value)

\* the cell of row old in column c, empty beyond its width
OldCell(old, c) == IF c <= Len(old) THEN old[c] ELSE NoneCell

\* a write that empties the cells of the columns the record does not feed
WriteCellBlanking(fs, record, oldcell) ==
    IF fs = {} THEN NoneCell
    ELSE Saved(ConvertedValue(CHOOSE f \in fs : TRUE, record[CHOOSE f \in fs : TRUE]))

\* lines 221-271 for one column: fs are the fields of the record mapped to it
WriteCell(fs, record, oldcell) ==
    IF fs = {} THEN oldcell
    ELSE Saved(ConvertedValue(CHOOSE f \in fs : TRUE, record[CHOOSE f \in fs : TRUE]))

\* lines 221-271: the record written over the row old
WrittenRow(old, record, cm, width) ==
    [c \in 1..width |->
        WriteCell({f \in DOMAIN record : ColumnOf(cm, f) = c}, record, OldCell(old, c))]

\* the number of columns of the sheet
SheetWidth(sheet) == IF sheet = <<>> THEN 0 ELSE Len(sheet[1])

\* lines 174-278: the accepted records written into consecutive rows from start
WriteRows(sheet, start, accepted, cm, width) ==
    [r \in 1..Max({Len(sheet), start + Len(accepted) - 1}) |->
        IF r >= start /\ r < start + Len(accepted)
        THEN WrittenRow(RowOf(sheet, r), accepted[r - start + 1], cm, width)
        ELSE [c \in 1..width |-> OldCell(RowOf(sheet, r), c)]]

\* lines 158-278: nothing is written without accepted records or without headers
WriteAccepted(sheet, start, accepted, cm) ==
    IF accepted = <<>> \/ DOMAIN cm = {} THEN sheet
    ELSE WriteRows(sheet, start, accepted, cm, SheetWidth(sheet))

\* lines 131-150 on the sheet: the records that pass the duplicate filter
AcceptedAt(sheet, rows, h, idc, eyec) == filtered_rows(rows, existing_keys(sheet, h, idc, eyec))

AcceptedWith(sheet, rows, h, cm) ==
    AcceptedAt(sheet, rows, h, ColumnOf(cm, "ID Patient"), ColumnOf(cm, "Oeil"))

Accepted(sheet, rows) == AcceptedWith(sheet, rows, header_row(sheet), column_map(sheet))

\* lines 89-278 with the header row h and the columns idc and eyec
MergeAt(sheet, rows, h, cm, idc, eyec) ==
    WriteAccepted(sheet, first_available_row(sheet, h, cm, idc, eyec),
                  AcceptedAt(sheet, rows, h, idc, eyec), cm)

MergeWith(sheet, rows, h, cm) ==
    MergeAt(sheet, rows, h, cm, ColumnOf(cm, "ID Patient"), ColumnOf(cm, "Oeil"))

\* lines 38-298 for an existing file: the sheet of the saved workbook
merge_excel_data(sheet, rows) == MergeWith(sheet, rows, header_row(sheet), column_map(sheet))

\* lines 322-325
columns == <<"ID Patient", "Age", "Oeil", "AL", "PACHY (mm)", "ACD epit", "LT",
             "PUISSANCE IOL", "TORIQUE PROG EDOF", "WTW (mm)">>

\* lines 327-342: an empty row 1, the headers in row 2, the records from row 3
create_excel_from_rows(rows) ==
    << [c \in DOMAIN columns |-> NoneCell],
       [c \in DOMAIN columns |-> StrCell(FieldText[columns[c]])] >>
    \o [i \in 1..Len(rows) |-> [c \in DOMAIN columns |-> StrCell(Get(rows[i], columns[c]))]]

-----------------------------------------------------------------------------
(* merge_excel_data: the formats of the new rows, the failures of a call *)

\* the format of a cell that has no style (has_style is false)
NoStyle == ""

\* the format of the cell (r, c), NoStyle for a cell the sheet does not hold
StyleAt(st, r, c) ==
    IF r >= 1 /\ r <= Len(st) /\ c >= 1 /\ c <= Len(st[r]) THEN st[r][c] ELSE NoStyle

\* lines 162-168: the last data row, or the header row when there is none
sample_row(h, last) == IF last > h THEN last ELSE h

\* lines 195-212 for one cell: font, border, fill, number format, protection
\* and alignment of the sample cell replace those of the target cell when
\* the sample cell has a style
CopiedStyle(source, target) == IF source /= NoStyle THEN source ELSE target

\* lines 175-215: the formats after the sample row is copied over the count
\* rows from start, in every column
CopyFormats(st, sample, start, count, width) ==
    [r \in 1..Max({Len(st), start + count - 1}) |->
        [c \in 1..width |->
            IF r >= start /\ r < start + count
            THEN CopiedStyle(StyleAt(st, sample, c), StyleAt(st, r, c))
            ELSE StyleAt(st, r, c)]]

\* the characters openpyxl refuses in a str value
IllegalChars == {"\f", "vt", "fs", "gs", "rs", "us"}

\* line 270 and line 342: assigning the value raises IllegalCharacterError
Illegal(c) == c.kind = "str" /\ \E k \in DOMAIN c.s : c.s[k] \in IllegalChars

\* lines 221-270: the write of an accepted record raises
WriteRaises(accepted, cm) ==
    \E i \in DOMAIN accepted : \E f \in DOMAIN accepted[i] :
        /\ \E k \in DOMAIN accepted[i][f] : accepted[i][f][k] \in IllegalChars
        /\ ColumnOf(cm, f) /= 0
        /\ Illegal(ConvertedValue(f, accepted[i][f]))

\* lines 338-342: the write of a record raises
CreateRaises(rows) ==
    \E i \in DOMAIN rows : \E c \in DOMAIN columns : Illegal(StrCell(Get(rows[i], columns[c])))

\* the message of the exception of lines 289 and 354
SaveError == "Failed to save Excel file"

\* wb.save raises on the sheet: the writer refuses a value
SaveRefused(sheet) ==
    \E r \in DOMAIN sheet : \E c \in DOMAIN sheet[r] : sheet[r][c].kind = "OverflowError"

\* load_workbook raises on the file of the sheet: the reader refuses a value
LoadRefused(sheet) ==
    \E r \in DOMAIN sheet : \E c \in DOMAIN sheet[r] : sheet[r][c].kind = "ValueError"

\* what a call may raise, "" for a call that returns: the write of a value
\* raises, or else wb.save succeeds or fails, as it does on a value the
\* writer refuses
Failures(write_raises, save_refused) ==
    IF write_raises THEN {"IllegalCharacterError"}
    ELSE IF save_refused THEN {SaveError}
    ELSE {"", SaveError}

\* lines 284-296 and 349-356: the finally clause closes the workbook once
\* wb.save has been reached; an exception raised before it leaves it open
HandleAfter(failure) == IF failure \in {"", SaveError} THEN "closed" ELSE "open"

\* lines 89-278 as one pass: the sheet and the formats the call would save,
\* the number of records written, and whether a write raises
CallOn(sheet, st, cm, accepted, start, sample) ==
    [ws |-> WriteAccepted(sheet, start, accepted, cm),
     styles |-> IF accepted = <<>> THEN st
                ELSE CopyFormats(st, sample, start, Len(accepted), SheetWidth(sheet)),
     added |-> Len(accepted),
     raises |-> WriteRaises(accepted, cm)]

CallAt(sheet, st, rows, h, cm, idc, eyec) ==
    CallOn(sheet, st, cm, AcceptedAt(sheet, rows, h, idc, eyec),
           first_available_row(sheet, h, cm, idc, eyec),
           sample_row(h, last_data_row(sheet, h, cm)))

CallWith(sheet, st, rows, h, cm) ==
    CallAt(sheet, st, rows, h, cm, ColumnOf(cm, "ID Patient"), ColumnOf(cm, "Oeil"))

\* lines 38-298 for an existing file
MergeCall(sheet, st, rows) == CallWith(sheet, st, rows, header_row(sheet), column_map(sheet))

\* the formats of a workbook made by Workbook(): no cell has a style
create_styles(rows) == [r \in 1..(2 + Len(rows)) |-> [c \in DOMAIN columns |-> NoStyle]]

-----------------------------------------------------------------------------
(* The merge calls: existing sheets, parsed batches, the two entry points *)

\* the patient identifiers of the batches: digits, leading zeros, letters
id251093 == <<"2","5","1","0","9","3">>

id007 == <<"0","0","7">>

idAbc == <<"a","b","c">>

BatchIds == {id251093, id007, idAbc}

\* the two records parse returns for a report of the patient pid
ParsedRows(pid) ==
    TablesReturn([AL |-> <<"2","3",".","5","0">>], [AL |-> <<"2","3",",","8">>],
                 pid, <<"1","3">>)

\* the identifier of the report txFormFeed: 'a\fb'
idFormFeed == <<"a", "\f", "b">>

\* the two records of a report whose table gave the axis next to K1
ParsedAxisRows ==
    TablesReturn([AL |-> <<"2","3",".","5","0">>, Axe |-> <<"1","0","5">>],
                 [AL |-> <<"2","3",",","8">>], id251093, <<"1","3">>)

\* the two records of a report whose table gave digits around an underscore
\* for the right eye and 'nan' for the left
ParsedWordRows ==
    TablesReturn([AL |-> <<"1","_","0">>], [AL |-> <<"n","a","n">>], id251093, <<"1","3">>)

\* all_rows of one request: the records of one report or of two, the report
\* without a patient identifier included
Batches ==
    {ParsedRows(i) : i \in BatchIds} \cup {ParsedRows(i) \o ParsedRows(j) : i, j \in BatchIds}
    \cup {ParsedRows(idFormFeed), ParsedAxisRows, ParsedWordRows}
    \cup {ParsedRows(<<>>) \o ParsedRows(id251093)}

\* the header of an existing tracking sheet: four mapped columns and a column
\* of remarks the records do not feed
SheetHeader ==
    <<StrCell(FieldText["ID Patient"]), StrCell(FieldText["Age"]), StrCell(FieldText["Oeil"]),
      StrCell(FieldText["AL"]), StrCell(<<"N","o","t","e","s">>)>>

BlankRow == [c \in 1..5 |-> NoneCell]

\* a row a former merge wrote for the right eye of patient 251093
Row251093 == <<IntCell(251093), IntCell(13), StrCell(OD), FloatCell(235, 1), StrCell(<<"o","k">>)>>

\* a row a former merge wrote for the left eye of patient 007
Row7 == <<IntCell(7), NoneCell, StrCell(OS), FloatCell(238, 1), NoneCell>>

\* a row typed by hand for the right eye of patient abc
RowAbc == <<StrCell(idAbc), NoneCell, StrCell(OD), NoneCell, NoneCell>>

DataRows == {BlankRow, Row251093, Row7, RowAbc}

\* the largest number of rows below the header of an existing sheet
MaxDataRows == 2

DataRowLists ==
    UNION {[1..n -> DataRows] : n \in 0..MaxDataRows}

\* the header of a tracking sheet with a column for the axis
AxisHeader ==
    <<StrCell(FieldText["ID Patient"]), StrCell(FieldText["Age"]), StrCell(FieldText["Oeil"]),
      StrCell(FieldText["AL"]), StrCell(FieldText["Axe"])>>

\* existing sheets: the header in row 2 under an empty row 1, or in row 1;
\* no two rows of a sheet hold the same patient and eye
ExistingSheets ==
    {top \o <<SheetHeader>> \o rows :
        top \in {<<>>, <<BlankRow>>},
        rows \in {l \in DataRowLists :
                    \A a, b \in DOMAIN l : (a /= b /\ l[a] = l[b]) => l[a] = BlankRow}}
    \cup {<<BlankRow, AxisHeader>>}

\* the formats of an existing sheet: a header format, a format of the rows
\* that hold data, and a prepared format of the empty rows below the header
ExistingStyles(sheet, h) ==
    [r \in 1..Len(sheet) |-> [c \in 1..Len(sheet[r]) |->
        IF r < h THEN NoStyle
        ELSE IF r = h THEN "head"
        ELSE IF \E k \in DOMAIN sheet[r] : sheet[r][k].kind /= "none" THEN "body"
        ELSE "grid"]]

\* the largest sheet a merge is applied to
MaxSheetRows == 6

\* main.py line 99: a request whose reports are parsed, without a workbook
\* or with one, which is not yet saved
InitMerge ==
    /\ pc \in {"nofile", "file"}
    /\ ws \in IF pc = "file" THEN ExistingSheets ELSE {<<>>}
    /\ styles = ExistingStyles(ws, header_row(ws))
    /\ wb = "none" /\ raised = "" /\ pdf = "none"
    /\ IdleBatch
    /\ IdleValue
    /\ new_rows = <<>> /\ prev_rows = <<>> /\ ws_before = <<>> /\ added = 0
    /\ today \in ParseDays
    /\ full_text = <<>> /\ tables = <<>> /\ patient_id = <<>> /\ age = <<>>
    /\ birth_date_str = <<>>
    /\ tix = 0 /\ header_row_idx = 0 /\ od_col_idx = None /\ os_col_idx = None /\ rix = 0
    /\ od_data = EmptyDict /\ os_data = EmptyDict
    /\ table_result = <<>> /\ result = <<>>

\* main.py lines 100-103: the request brings the workbook the user has, the
\* one of the start or the one the request before sent back; its file is
\* opened in the temporary directory and the coroutine waits for
\* excel_file.read()
SaveWorkbook ==
    /\ pc \in {"file", "created", "merged"}
    /\ temp_file = "none"
    /\ temp_file' = "open"
    /\ UNCHANGED <<pc, today, parseVars, birth_date_str, valueVars, mergeVars, raised,
                   pdf_files, file_idx, all_rows, response>>

\* main.py line 103: open() raises for a file name that is no file of the
\* temporary directory (a name with a directory part, no name); the
\* exception is outside the try of line 114: the records are dropped and no
\* workbook is loaded or made
WorkbookRaises ==
    /\ pc \in {"file", "created", "merged"}
    /\ temp_file = "none"
    /\ raised' = "OSError"
    /\ pc' = "unsaved"
    /\ UNCHANGED <<today, parseVars, birth_date_str, valueVars, mergeVars, batchVars>>

\* main.py line 104: the request is cancelled while it waits for the
\* workbook: CancelledError leaves the with blocks, which close the file and
\* remove the directory; no workbook is loaded or made
WorkbookCancelled ==
    /\ pc \in {"file", "created", "merged"}
    /\ temp_file = "open"
    /\ temp_file' = "closed"
    /\ raised' = "CancelledError"
    /\ pc' = "cancelled"
    /\ UNCHANGED <<today, parseVars, birth_date_str, valueVars, mergeVars, pdf_files, file_idx,
                   all_rows, response>>

\* main.py lines 104-105: the workbook has been read; it is written and the
\* file closed
ReadWorkbook ==
    /\ pc \in {"file", "created", "merged"}
    /\ temp_file = "open"
    /\ temp_file' = "closed"
    /\ UNCHANGED <<pc, today, parseVars, birth_date_str, valueVars, mergeVars, raised,
                   pdf_files, file_idx, all_rows, response>>

\* the state a call leaves when it raises: no file is written
CallFailed(failure) ==
    /\ ws' = ws /\ styles' = styles /\ added' = 0
    /\ raised' = failure
    /\ pc' = "failed"

\* main.py lines 118-120, without an uploaded workbook: create_excel_from_rows
\* on a new Workbook()
CreateExcel ==
    /\ pc = "nofile"
    /\ \E rows \in Batches :
          /\ new_rows' = rows
          /\ \E failure \in Failures(CreateRaises(rows), FALSE) :
                /\ wb' = HandleAfter(failure)
                /\ IF failure = ""
                   THEN /\ ws' = create_excel_from_rows(rows)
                        /\ styles' = create_styles(rows)
                        /\ added' = Len(rows)
                        /\ raised' = ""
                        /\ pc' = "created"
                   ELSE CallFailed(failure)
    /\ prev_rows' = new_rows
    /\ ws_before' = ws
    /\ UNCHANGED <<today, parseVars, birth_date_str, valueVars, batchVars>>

\* the result call of merge_excel_data reaches the caller: the saved sheet,
\* or an exception
MergeReturns(call) ==
    \E failure \in Failures(call.raises, SaveRefused(call.ws)) :
        /\ wb' = HandleAfter(failure)
        /\ IF failure = ""
           THEN /\ ws' = call.ws
                /\ styles' = call.styles
                /\ added' = call.added
                /\ raised' = ""
                /\ pc' = "merged"
           ELSE CallFailed(failure)

\* main.py lines 110-117, with the uploaded workbook saved: merge_excel_data
\* on the sheet load_workbook gives, unless load_workbook raises on a value
\* of the file (line 41, before any write); the request ends and the
\* temporary directory is removed
Merge ==
    /\ pc \in {"file", "created", "merged"}
    /\ temp_file = "closed"
    /\ Len(ws) <= MaxSheetRows
    /\ \E rows \in Batches :
          /\ new_rows' = rows
          /\ IF LoadRefused(ws)
             THEN /\ wb' = "none" /\ ws' = ws /\ styles' = styles /\ added' = 0
                  /\ raised' = "ValueError"
                  /\ pc' = "unloaded"
             ELSE MergeReturns(MergeCall(ws, styles, rows))
    /\ prev_rows' = new_rows
    /\ ws_before' = ws
    /\ temp_file' = "none"
    /\ UNCHANGED <<today, parseVars, birth_date_str, valueVars, pdf_files, file_idx, all_rows,
                   response>>

NextMerge ==
    CreateExcel \/ SaveWorkbook \/ WorkbookRaises \/ WorkbookCancelled \/ ReadWorkbook \/ Merge

\* merge_excel_data ran in the step and returned
Merged == temp_file = "closed" /\ pc' = "merged"

SpecMerge == InitMerge /\ [][NextMerge]_vars

-----------------------------------------------------------------------------
(* extract_data: one request with several reports *)

\* parser.parse for a report without tables: the two records of the text
\* fallback with the demographics of the page text
ParseText(t, now) ==
    <<TextRecord(t, OD, OD, NormalizeId(CapturedId(t)),
                 _calculate_age(ExtractBirthDate(t, <<>>), now)),
      TextRecord(t, OS, OS, NormalizeId(CapturedId(t)),
                 _calculate_age(ExtractBirthDate(t, <<>>), now))>>

\* an uploaded file: its name, whether a file of that name can be opened in
\* the temporary directory (a name with a directory part or no name cannot),
\* whether pdfplumber can read it, its page text
Upload(i, named, readable, t) ==
    [filename |-> i, named |-> named, readable |-> readable, text |-> t]

\* the contents an uploaded file may have
UploadKinds ==
    {<<TRUE, TRUE, txFull>>, <<TRUE, TRUE, txZeros>>, <<TRUE, TRUE, txLetters>>,
     <<TRUE, FALSE, txNone>>, <<FALSE, TRUE, txFull>>}

\* the largest number of reports of a request
MaxFiles == 3

\* the uploads of a request: one to MaxFiles files, named by their position
Uploads ==
    UNION {{[i \in 1..n |-> Upload(i, k[i][1], k[i][2], k[i][3])] : k \in [1..n -> UploadKinds]} :
              n \in 1..MaxFiles}

\* a response: the status, the file the error detail names (0 for none), the
\* records of the workbook sent back
Response(status, file, rows) == [status |-> status, file |-> file, rows |-> rows]

InitBatch ==
    /\ pc = "request"
    /\ today \in ParseDays
    /\ pdf_files \in Uploads
    /\ file_idx = 1 /\ all_rows = <<>> /\ response = <<>> /\ temp_file = "none"
    /\ full_text = <<>> /\ tables = <<>> /\ patient_id = <<>> /\ age = <<>>
    /\ birth_date_str = <<>>
    /\ tix = 0 /\ header_row_idx = 0 /\ od_col_idx = None /\ os_col_idx = None /\ rix = 0
    /\ od_data = EmptyDict /\ os_data = EmptyDict
    /\ table_result = <<>> /\ result = <<>>
    /\ pdf = "none" /\ raised = ""
    /\ IdleMerge
    /\ IdleValue

\* main.py lines 73-78: the loop takes the next upload and opens its file in
\* the temporary directory; the coroutine then waits for pdf_file.read() and
\* the event loop runs other requests, which share no state with this one
SaveUpload ==
    /\ pc = "request"
    /\ file_idx <= Len(pdf_files)
    /\ pdf_files[file_idx].named
    /\ temp_file' = "open"
    /\ pc' = "reading"
    /\ UNCHANGED <<today, parseVars, birth_date_str, valueVars, mergeVars, raised, pdf_files,
                   file_idx, all_rows, response>>

\* main.py lines 76-77: open() raises for a name that is no file of the
\* temporary directory; the exception is outside the try of line 83, so the
\* request ends with a status 500 that names no file
SaveRaises ==
    /\ pc = "request"
    /\ file_idx <= Len(pdf_files)
    /\ ~pdf_files[file_idx].named
    /\ response' = Response(500, 0, <<>>)
    /\ raised' = "OSError"
    /\ pc' = "responded"
    /\ UNCHANGED <<today, parseVars, birth_date_str, valueVars, mergeVars, pdf_files, file_idx,
                   all_rows, temp_file>>

\* main.py line 78: the request is cancelled while it waits for the upload
\* (the client went away): CancelledError leaves the with blocks, which close
\* the file and remove the directory; nothing is parsed and nothing is sent
Cancelled ==
    /\ pc = "reading"
    /\ temp_file' = "closed"
    /\ raised' = "CancelledError"
    /\ pc' = "cancelled"
    /\ UNCHANGED <<today, parseVars, birth_date_str, valueVars, mergeVars, pdf_files, file_idx,
                   all_rows, response>>

\* main.py lines 78-88: the upload has been read; it is written and the file
\* closed, the report is parsed and its records are added
ParseFile ==
    /\ pc = "reading"
    /\ pdf_files[file_idx].readable
    /\ temp_file' = "closed"
    /\ all_rows' = all_rows \o ParseText(pdf_files[file_idx].text, today)
    /\ file_idx' = file_idx + 1
    /\ pc' = "request"
    /\ UNCHANGED <<today, parseVars, birth_date_str, valueVars, mergeVars, raised, pdf_files, response>>

\* main.py lines 78-94: the upload has been read and written; parse raises,
\* the request ends with status 500 and a detail that names the file, and
\* no workbook is made
ParseFails ==
    /\ pc = "reading"
    /\ ~pdf_files[file_idx].readable
    /\ temp_file' = "closed"
    /\ response' = Response(500, pdf_files[file_idx].filename, <<>>)
    /\ raised' = "Error parsing PDF"
    /\ pc' = "responded"
    /\ UNCHANGED <<today, parseVars, birth_date_str, valueVars, mergeVars, pdf_files, file_idx, all_rows>>

\* main.py lines 99-142 without an uploaded workbook: create_excel_from_rows
\* on all_rows, then the file is sent back, or status 500 when the call raises
SendWorkbook ==
    /\ pc = "request"
    /\ file_idx > Len(pdf_files)
    /\ \E failure \in Failures(CreateRaises(all_rows), FALSE) :
          /\ wb' = HandleAfter(failure)
          /\ raised' = failure
          /\ IF failure = ""
             THEN /\ ws' = create_excel_from_rows(all_rows)
                  /\ styles' = create_styles(all_rows)
                  /\ response' = Response(200, 0, all_rows)
             ELSE /\ ws' = ws /\ styles' = styles
                  /\ response' = Response(500, 0, <<>>)
    /\ new_rows' = all_rows
    /\ added' = IF raised' = "" THEN Len(all_rows) ELSE 0
    /\ pc' = "responded"
    /\ UNCHANGED <<today, parseVars, birth_date_str, valueVars, prev_rows, ws_before,
                   pdf_files, file_idx, all_rows, temp_file>>

NextBatch == SaveUpload \/ SaveRaises \/ Cancelled \/ ParseFile \/ ParseFails \/ SendWorkbook

SpecBatch == InitBatch /\ [][NextBatch]_vars

-----------------------------------------------------------------------------
(* Properties of merge_excel_data *)

\* the row holds a value
HeldData(row) == \E c \in DOMAIN row : row[c].kind /= "none"

\* C9: a merge call never changes a cell of a row that held data before the
\* call: the accepted records go into empty rows only, whatever the number of
\* accepted records and the arrangement of empty and filled rows
C9_FilledRowsUntouched ==
    [][Merged =>
          \A r \in 1..Len(ws) : HeldData(ws[r]) => (r <= Len(ws') /\ ws'[r] = ws[r])]_vars

\* the rows of the sheet after the header that hold a patient id and an eye
KeyedRows(sheet) ==
    {r \in (header_row(sheet) + 1)..Len(sheet) :
        /\ CellAt(sheet, r, ColumnOf(column_map(sheet), "ID Patient")).kind /= "none"
        /\ CellAt(sheet, r, ColumnOf(column_map(sheet), "Oeil")).kind /= "none"}

\* no two rows of the sheet hold the same patient id and eye
UniqueKeys(sheet) ==
    \A a, b \in KeyedRows(sheet) :
        (/\ CellAt(sheet, a, ColumnOf(column_map(sheet), "ID Patient"))
              = CellAt(sheet, b, ColumnOf(column_map(sheet), "ID Patient"))
         /\ CellAt(sheet, a, ColumnOf(column_map(sheet), "Oeil"))
              = CellAt(sheet, b, ColumnOf(column_map(sheet), "Oeil")))
        => a = b

\* C10: merging the record sequence of the previous merge call again adds no
\* row, for every patient identifier the parser emits, leading zeros
\* included; and a merge call leaves each (patient id, eye) pair in at most
\* one row
C10_MergeTwiceAddsNothing ==
    [][Merged =>
          /\ (pc = "merged" /\ new_rows' = new_rows) => (added' = 0 /\ ws' = ws)
          /\ UniqueKeys(ws) => UniqueKeys(ws')]_vars

\* C11: a call of merge_excel_data or create_excel_from_rows leaves each
\* (patient id, eye) pair in at most one row of the sheet: the incoming
\* records are deduplicated against each other and against the rows already
\* there, with or without an existing workbook
C11_OneRowPerPair ==
    [][pc' \in {"created", "merged"} => (UniqueKeys(ws) => UniqueKeys(ws'))]_vars

\* the columns whose header is a field name of one of the records
WrittenColumns(cm, rows) ==
    {ColumnOf(cm, f) : f \in UNION {DOMAIN rows[i] : i \in DOMAIN rows}} \ {0}

\* value and format of the cell (r, c) are the same before and after
SameCell(r, c) ==
    CellAt(ws', r, c) = CellAt(ws, r, c) /\ StyleAt(styles', r, c) = StyleAt(styles, r, c)

\* no cell outside the columns cols changes, in value or in format
OutsideUntouched(cols) ==
    \A r \in 1..Len(ws') : \A c \in 1..SheetWidth(ws) : c \notin cols => SameCell(r, c)

\* C12 as stated: a merge call touches only the cells of the columns whose
\* header is a field name of the written records; every other cell, in the
\* new rows and in all other rows, is unchanged in value and in format
C12_OnlyWrittenColumnsTouched ==
    [][Merged => OutsideUntouched(WrittenColumns(column_map(ws), new_rows'))]_vars

\* the values outside the columns cols are kept, and formats change only
\* in the count rows from start
ValuesKept(cols, start, count) ==
    \A r \in 1..Len(ws') : \A c \in 1..SheetWidth(ws) :
        /\ c \notin cols => CellAt(ws', r, c) = CellAt(ws, r, c)
        /\ (r < start \/ r >= start + count) => StyleAt(styles', r, c) = StyleAt(styles, r, c)

\* the same for a call on the sheet with the header row h and the columns cm
ValuesKeptWith(h, cm) ==
    ValuesKept(WrittenColumns(cm, new_rows'),
               first_available_row(ws, h, cm, ColumnOf(cm, "ID Patient"), ColumnOf(cm, "Oeil")),
               added')

\* C12, amended: a merge call assigns values only to cells of the columns
\* whose header is a field name of the written records, so the value of
\* every other cell, in the new rows and in all other rows, is unchanged;
\* formats change in the new rows only (there in every column)
C12_ValuesOutsideWrittenColumnsKept ==
    [][Merged => ValuesKeptWith(header_row(ws), column_map(ws))]_vars

\* a call wrote a record into a row that held a remark: the remark is kept
C12_RemarkKeptInWrittenRow ==
    /\ pc = "merged" /\ added > 0
    /\ \E r \in DOMAIN ws_before :
          /\ CellAt(ws_before, r, 5).kind = "str"
          /\ CellAt(ws, r, 1) /= CellAt(ws_before, r, 1)
          /\ CellAt(ws, r, 5) = CellAt(ws_before, r, 5)

\* the text holds a digit
HasDigit(value) == \E k \in DOMAIN value : value[k] \in Digits

\* the cell of row r in the column of the field, empty when there is no
\* such column
FieldCell(sheet, r, cm, field) == CellAt(sheet, r, ColumnOf(cm, field))

\* the cells of row r hold the record as the coercion rules give it: the
\* axis and the patient identifier as the integer of their digits, the
\* numeric fields as a number
CoercedRow(sheet, r, cm, record) ==
    /\ (ColumnOf(cm, "Axe") /= 0 /\ HasDigit(Get(record, "Axe")))
          => FieldCell(sheet, r, cm, "Axe") = IntCell(NatOf(DigitsOnly(Get(record, "Axe"))))
    /\ (ColumnOf(cm, "ID Patient") /= 0 /\ HasDigit(Get(record, "ID Patient")))
          => FieldCell(sheet, r, cm, "ID Patient")
                = IntCell(NatOf(DigitsOnly(Get(record, "ID Patient"))))
    /\ \A f \in NumericFields \cap DOMAIN record :
          (ColumnOf(cm, f) /= 0 /\ _is_numeric(Replace(record[f], <<",">>, <<".">>)))
             => FieldCell(sheet, r, cm, f).kind \in {"int", "float"}

\* the records accepted, written from row start on, are coerced
CoercedFrom(accepted, start, cm) ==
    \A i \in DOMAIN accepted : CoercedRow(ws', start + i - 1, cm, accepted[i])

CoercedWith(h, cm) ==
    CoercedFrom(AcceptedWith(ws, new_rows', h, cm),
                first_available_row(ws, h, cm, ColumnOf(cm, "ID Patient"), ColumnOf(cm, "Oeil")),
                cm)

\* C13: a merge call writes a record of the parser with its axis (key
\* 'Axe') as the integer of its digits, its patient identifier as the
\* integer of its digits when it has one, and its numeric fields as a float
\* or an int after the comma is read as a decimal point
C13_ParserFieldsCoerced ==
    [][Merged => CoercedWith(header_row(ws), column_map(ws))]_vars

\* C15: after a call of merge_excel_data or create_excel_from_rows has
\* opened a workbook, the handle is closed however the call ends, an
\* exception raised between loading and saving included; and a failure of
\* wb.save reaches the caller as an error
C15_WorkbookClosedOnEveryExit ==
    /\ pc \in {"created", "merged", "failed"} => wb = "closed"
    /\ pc \in {"created", "merged"} => raised = ""
    /\ pc = "failed" => raised /= ""

\* the record holds the value of each of its non-empty fields in a column of
\* row r whose header in row 2 names the field
FieldsInRow(sheet, r, rec) ==
    \A k \in DOMAIN rec :
        rec[k] /= <<>> =>
            \E c \in DOMAIN sheet[r] :
                sheet[2][c] = StrCell(FieldText[k]) /\ sheet[r][c] = StrCell(rec[k])

\* C29: without an existing workbook the created sheet has its headers in
\* row 2 and the i-th incoming record in row 3+i (i from 0), in input order,
\* and every field of a record that holds a value is found in a column of
\* that row
C29_CreatedSheetHoldsEveryField ==
    pc = "created" =>
        /\ Len(ws) = 2 + Len(new_rows)
        /\ \A c \in DOMAIN ws[2] : ws[2][c].kind = "str"
        /\ \A i \in DOMAIN new_rows : FieldsInRow(ws, 2 + i, new_rows[i])

\* (patient id, eye) of a record as text, and whether both are present
PairOf(rec) == <<Strip(Get(rec, "ID Patient")), Strip(Get(rec, "Oeil"))>>

Keyed(rec) == PairOf(rec)[1] /= <<>> /\ PairOf(rec)[2] /= <<>>

\* the (patient id, eye) pairs the rows below the header of the sheet hold,
\* read as text; none when the sheet lacks one of the two columns
SeenPairs(sheet) ==
    LET idc == ColumnOf(column_map(sheet), "ID Patient")
        eyec == ColumnOf(column_map(sheet), "Oeil")
    IN IF idc = 0 \/ eyec = 0 THEN {}
       ELSE {KeyAt(sheet, r, idc, eyec) : r \in (header_row(sheet) + 1)..max_row(sheet)}

\* the pairs of the incoming records that are complete and not in the sheet
FreshPairs(sheet, rows) ==
    {PairOf(rows[i]) : i \in {j \in DOMAIN rows : Keyed(rows[j])}} \ SeenPairs(sheet)

\* C30: a merge into an existing workbook adds a row for a record only if
\* its patient id and its eye are both non-empty; a record without patient
\* id is dropped and raises nothing; the number of rows added is the number
\* of incoming records with a complete pair not seen before, the sheet is
\* left as it was when there is none and grows by no more rows than that
C30_OnlyKeyedRecordsAdded ==
    [][/\ Merged =>
              /\ added' = Cardinality(FreshPairs(ws, new_rows'))
              /\ added' = 0 => ws' = ws
              /\ Len(ws') <= Len(ws) + added'
       /\ (pc \in {"file", "created", "merged"} /\ pc' = "failed"
              /\ raised' = "IllegalCharacterError") =>
              \E i \in DOMAIN new_rows' :
                  /\ Keyed(new_rows'[i])
                  /\ \E f \in DOMAIN new_rows'[i] : \E k \in DOMAIN new_rows'[i][f] :
                         new_rows'[i][f][k] \in IllegalChars]_vars

\* a merge returned after a batch with a record without patient id: fewer
\* rows were added than records came in, and one row was added
C30_EmptyIdDropped ==
    /\ pc = "merged" /\ raised = ""
    /\ \E i \in DOMAIN new_rows : Get(new_rows[i], "ID Patient") = <<>>
    /\ \E i \in DOMAIN new_rows : Keyed(new_rows[i])
    /\ added > 0 /\ added < Len(new_rows)

\* the records of the report pdf_files[i] are among the records sent back
Delivered(i) ==
    \A k \in 1..2 : \E j \in DOMAIN response.rows :
        response.rows[j] = ParseText(pdf_files[i].text, today)[k]

\* C16: a report that cannot be read fails alone: the error names that
\* file, and the records of the other reports of the request are neither
\* damaged nor dropped, they reach the caller
C16_FailureIsolatedToFile ==
    pc = "responded" =>
        /\ (response.status = 500 /\ response.file /= 0)
              => ~pdf_files[response.file].readable
        /\ \A i \in DOMAIN pdf_files : pdf_files[i].readable => Delivered(i)

-----------------------------------------------------------------------------
(* _extract_value_from_text: the call as a state machine *)

\* number tokens <<text, value in thousandths>>, -1 for a token float() refuses;
\* the value is the double float() gives: 0.5 for 0.50000000000000001, 100 for
\* 99.99999999999999999 and for 99.999999999999995
NumberTokens ==
    {<<<<"0",".","5">>, 500>>,
     <<<<"0",".","5","0","0","0","0","0","0","0","0","0","0","0","0","0","0","0","1">>, 500>>,
     <<<<"9","9",".","9","9","9","9","9","9","9","9","9","9","9","9","9","9","9","9","9">>, 100000>>,
     <<<<"9","9",".","9","9","9","9","9","9","9","9","9","9","9","9","9","9","5">>, 100000>>,
     <<<<"0",".","5","0">>, 500>>,
     <<<<"0",".","5","1">>, 510>>,
     <<<<"0",",","5">>, 500>>,
     <<<<"0",".","4">>, 400>>,
     <<<<"1","0","0">>, 100000>>,
     <<<<"1","0","0",".","0">>, 100000>>,
     <<<<"9","9",".","9">>, 99900>>,
     <<<<"2","4",",","1","8">>, 24180>>,
     <<<<"7">>, 7000>>,
     <<<<"0">>, 0>>,
     <<<<"1",".","2",".","3">>, -1>>,
     <<<<".">>, -1>>}

\* what stands before the number: nothing, a label with ':' or '=', a label
\* and a line break or a space, a number before the label, two labels
ValuePrefixes ==
    {<<>>,
     <<"A","L",":"," ">>,
     <<"A","L"," ","="," ">>,
     <<"A","L","\n">>,
     <<"A","L"," ">>,
     <<"1","2"," ","A","L",":"," ">>,
     <<"7"," ","A","L","\n">>,
     <<"A","L"," ","3"," ","A","L",":"," ">>,
     <<"K","1",":"," ">>,
     <<"K","1"," ">>}

\* what stands after the number: nothing, a unit, another number
ValueSuffixes == {<<>>, <<" ","m","m">>, <<" ","1","2">>}

\* the texts of the calls, and the cell that holds nothing but a label
ValueTexts ==
    {p \o n[1] \o x : p \in ValuePrefixes, n \in NumberTokens, x \in ValueSuffixes}
    \cup {<<"K","1">>, <<"K","2">>, <<"A","L">>}

\* the labels of the calls
ValueLabels == {<<"A","L">>, <<"K","1">>, <<"K","2">>}

InitValue ==
    /\ pc = "value"
    /\ arg_text \in ValueTexts
    /\ arg_label \in ValueLabels
    /\ ret_val = <<>>
    /\ today \in ParseDays
    /\ full_text = <<>> /\ tables = <<>> /\ patient_id = <<>> /\ age = <<>>
    /\ birth_date_str = <<>>
    /\ tix = 0 /\ header_row_idx = 0 /\ od_col_idx = None /\ os_col_idx = None /\ rix = 0
    /\ od_data = EmptyDict /\ os_data = EmptyDict
    /\ table_result = <<>> /\ result = <<>>
    /\ pdf = "none" /\ raised = ""
    /\ IdleMerge
    /\ IdleBatch

\* lines 518-561: one call of _extract_value_from_text
ExtractValue ==
    /\ pc = "value"
    /\ ret_val' = _extract_value_from_text(arg_text, arg_label)
    /\ pc' = "value_done"
    /\ UNCHANGED <<today, parseVars, birth_date_str, mergeVars, batchVars, raised,
                   arg_text, arg_label>>

NextValue == ExtractValue

SpecValue == InitValue /\ [][NextValue]_vars

\* 0.5 < v < 100 for a value given in thousandths
StrictlyBetween(v) == 500 < v /\ v < 100000

\* the value of the first of the three results that is not ""
FirstSuccess(strict, lazy, scan) ==
    IF strict /= <<>> THEN strict ELSE IF lazy /= <<>> THEN lazy ELSE scan

\* C23: _extract_value_from_text returns the result of the first of strict
\* 'label [:=] number', lazy 'label ... number' and plausibility scan that
\* yields a numeric string, and "" when none does; on a text that is one
\* number token the scan returns it exactly when 0.5 < v < 100, so that 0.5
\* and 100 are rejected
C23_StrategiesInOrder ==
    pc = "value_done" =>
        /\ ret_val = FirstSuccess(
               CaptureValue(Upper(arg_text), StrictSearch(Upper(arg_text), arg_label)),
               CaptureValue(Upper(arg_text), LazySearch(Upper(arg_text), arg_label)),
               PlausibilityScan(arg_text))
        /\ ret_val /= <<>> => _is_numeric(ret_val)
        /\ \A n \in NumberTokens :
              arg_text = n[1] =>
                  ret_val = IF StrictlyBetween(n[2])
                            THEN Replace(n[1], <<",">>, <<".">>) ELSE <<>>

\* the scan refused the token 100 and nothing was returned
C23_HundredRejected ==
    pc = "value_done" /\ arg_text = <<"1","0","0">> /\ ret_val = <<>>

\* the text holds a digit outside the occurrences of the label
DigitOutsideLabel(text, label) ==
    \E k \in 1..Len(Replace(text, label, <<>>)) : Replace(text, label, <<>>)[k] \in Digits

\* C28: a digit of the label is never returned as the value: for a text that
\* contains the label K1 or K2 and no other number, _extract_value_from_text
\* returns ""
C28_LabelDigitNotAValue ==
    (/\ pc = "value_done"
     /\ arg_label \in {<<"K","1">>, <<"K","2">>}
     /\ Contains(Upper(arg_text), arg_label)
     /\ ~DigitOutsideLabel(Upper(arg_text), arg_label)) => ret_val = <<>>

=============================================================================
